---- MODULE Spec2Model ----
(***************************************************************************)
(* Model of the streaming pipeline of the proxy: the Claude SSE writer     *)
(* (ClaudeStream), the post-stream part of the stream handlers with the    *)
(* tool-call retry loop, and the incremental parser (ToolifyParser).       *)
(*                                                                         *)
(* Text is a sequence of one-character strings.  A frame handed to          *)
(* SSEWriter.send is a record [event, index, kind, data]; index is NoIndex *)
(* for frames that carry none, kind is the block type, the delta type or   *)
(* the stop_reason, data is the text the frame carries.                    *)
(***************************************************************************)
EXTENDS Integers, Sequences, FiniteSets, TLC

VARIABLES
    context,      \* ClaudeStream.context: nextBlockIndex, textBlockOpen, ...
    aggregator,   \* TextAggregator: the text added and not yet flushed
    frames,       \* what SSEWriter.send has delivered to the client, in order
    evlog,        \* history: the parser events handed to handleEvents, in order
    hpc,          \* position of the stream handler
    retryCfg,     \* config.toolCallRetry and the eligibility of the request
    failedEvent,  \* the tool_call_failed event found after parser.finish()
    attempt,      \* loop variable of the retry loop
    retryCalls,   \* history: number of retryHandler.retry calls made
    retrySuccess, \* retrySuccess of the handler
    callsAfterSuccess, \* history: retry calls made after one succeeded
    branch,       \* history: which branch the handler took after parser.finish()
    framesAtRetry, \* history: number of frames sent when the retry branch was entered
    parser,       \* ToolifyParser: its state, buffers and queued events
    fed,          \* history: the chunks of upstream text fed to the parser so far
    pevents,      \* the events taken from the parser with consumeEvents(), in order
    body,         \* the bytes of the upstream response body not read yet
    stream,       \* history: all the bytes of the upstream response body
    buffer,       \* the handler's line buffer: the unfinished last line
    given,        \* the arguments a function of the program is called with
    returned      \* the function called and what it returned, or how far it is

vars == <<context, aggregator, frames, evlog, hpc, retryCfg, failedEvent,
          attempt, retryCalls, retrySuccess, callsAfterSuccess, branch, framesAtRetry,
          parser, fed, pevents, body, stream, buffer, given, returned>>

parserVars == <<parser, fed, pevents>>

readVars == <<body, stream, buffer>>

pureVars == <<given, returned>>

writerVars == <<context, aggregator, frames, evlog>>
handlerVars == <<hpc, retryCfg, failedEvent, attempt, retryCalls, retrySuccess,
                 callsAfterSuccess, branch, framesAtRetry>>

(***************************************************************************)
(* Bounds                                                                  *)
(***************************************************************************)
MaxEvents == 4
MaxFeed == 2
MaxChunks == 4
MaxCallChunks == 12
MaxLines == 3
MaxSseEvents == 3
MaxRetriesBound == 2

NoIndex == 0 - 1
chunkSize == 5

(***************************************************************************)
(* Helpers on text                                                         *)
(***************************************************************************)
RECURSIVE Concat(_)
Concat(ss) ==
    IF ss = <<>> THEN <<>>
    ELSE IF Len(ss) = 1 THEN ss[1]
    ELSE Concat(SubSeq(ss, 1, Len(ss) \div 2))
         \o Concat(SubSeq(ss, Len(ss) \div 2 + 1, Len(ss)))

Min(a, b) == IF a < b THEN a ELSE b

CeilDiv(a, b) == (a + b - 1) \div b

\* String.prototype.slice(i, i + n) for 0-based i
Slice(s, i, n) == SubSeq(s, i + 1, Min(Len(s), i + n))

\* the chunks of s without the last, shorter one
ChunksWithoutRemainder(s) ==
    [k \in 1..(Len(s) \div chunkSize) |-> Slice(s, (k - 1) * chunkSize, chunkSize)]

\* for (let i = 0; i < s.length; i += chunkSize) s.slice(i, i + chunkSize)
Chunks(s) == [k \in 1..CeilDiv(Len(s), chunkSize) |-> Slice(s, (k - 1) * chunkSize, chunkSize)]

\* countTokensWithTiktoken: 0 for the empty text, else the length-based estimate
countTokens(text) == IF text = <<>> THEN 0 ELSE CeilDiv(Len(text), 4)

(***************************************************************************)
(* JSON.stringify of the arguments of a tool call.  Arguments are an       *)
(* ordered list of <<key, value>> pairs with string values.                *)
(***************************************************************************)
Quote(s) == <<"\"">> \o s \o <<"\"">>

RECURSIVE JsonEntries(_)
JsonEntries(args) ==
    IF args = <<>> THEN <<>>
    ELSE Quote(args[1][1]) \o <<":">> \o Quote(args[1][2])
         \o (IF Len(args) > 1 THEN <<",">> ELSE <<>>) \o JsonEntries(Tail(args))

JSONStringify(args) == <<"{">> \o JsonEntries(args) \o <<"}">>

(***************************************************************************)
(* Events of the parser                                                    *)
(***************************************************************************)
TextEv(c) == [type |-> "text", content |-> c, name |-> <<>>, arguments |-> <<>>,
    priorText |-> <<>>]
ThinkingEv(c) == [type |-> "thinking", content |-> c, name |-> <<>>, arguments |-> <<>>,
    priorText |-> <<>>]
ToolCallEv(n, a) == [type |-> "tool_call", content |-> <<>>, name |-> n, arguments |-> a,
    priorText |-> <<>>]
FailedEvWith(c, prior) ==
    [type |-> "tool_call_failed", content |-> c, name |-> <<>>, arguments |-> <<>>,
     priorText |-> prior]
FailedEv(c) == FailedEvWith(c, <<>>)
EndEv == [type |-> "end", content |-> <<>>, name |-> <<>>, arguments |-> <<>>,
    priorText |-> <<>>]

TextContents == { <<>>, <<"a">>, <<"b", "c">> }
ThinkingContents == { <<>>, <<"u", "v", "w", "x", "y", "z">> }
ToolNames == { <<"f">> }
ToolArgs == { <<>>, << <<<<"k">>, <<"v">>>> >> }
FailedContents == { <<"<", "!">> }

(***************************************************************************)
(* ToolifyParser: the character-fed state machine that splits the upstream *)
(* text into text, thinking, tool_call and tool_call_failed events.        *)
(***************************************************************************)
TC_START == <<"<", "<", "C", "A", "L", "L", "_", "a", "b", "1", "2", ">", ">">>
THINKING_OPEN == <<"<", "t", "h", "i", "n", "k", "i", "n", "g", ">">>
THINKING_CLOSE == <<"<", "/", "t", "h", "i", "n", "k", "i", "n", "g", ">">>
INVOKE_OPEN == <<"<", "i", "n", "v", "o", "k", "e", " ", "n", "a", "m", "e", "=", "\"">>
INVOKE_CLOSE == <<"<", "/", "i", "n", "v", "o", "k", "e", ">">>
PARAM_OPEN == <<"<", "p", "a", "r", "a", "m", "e", "t", "e", "r", " ", "n", "a", "m", "e", "=", "\"">>
PARAM_CLOSE == <<"<", "/", "p", "a", "r", "a", "m", "e", "t", "e", "r", ">">>
ATTR_CLOSE == <<"\"", ">">>

Whitespace == { " ", "\n", "\r", "\t" }

EndsWith(s, m) == Len(m) <= Len(s) /\ SubSeq(s, Len(s) - Len(m) + 1, Len(s)) = m

StartsWith(s, m) == Len(m) <= Len(s) /\ SubSeq(s, 1, Len(m)) = m

DropLast(s, n) == SubSeq(s, 1, Len(s) - n)

DropFirst(s, n) == SubSeq(s, n + 1, Len(s))

IsBlank(s) == \A i \in 1..Len(s) : s[i] \in Whitespace

\* the markers NORMAL scans for
NormalMarkers(p) == IF p.hasDelimiter THEN {THINKING_OPEN, TC_START} ELSE {THINKING_OPEN}

\* length of the longest end of s that is a proper beginning of one of the markers
HeldLen(s, markers) ==
    LET L == { n \in 0..Len(s) :
                 n = 0 \/ \E m \in markers :
                            n < Len(m) /\ SubSeq(s, Len(s) - n + 1, Len(s)) = SubSeq(m, 1, n) }
    IN CHOOSE n \in L : \A k \in L : k <= n

\* a parameter value taken as the raw string always
parseValueRaw(v) == v

\* a parameter value is taken as JSON when it parses, else as the raw string
parseValue(v) ==
    IF Len(v) >= 2 /\ v[1] = "\"" /\ v[Len(v)] = "\""
          /\ \A i \in 2..(Len(v) - 1) : v[i] # "\""
    THEN SubSeq(v, 2, Len(v) - 1)
    ELSE v

NewParser(hasDelimiter) ==
    [hasDelimiter |-> hasDelimiter, state |-> "NORMAL", buf |-> <<>>, thinkingBuf |-> <<>>,
     raw |-> <<>>, match |-> <<>>, toolName |-> <<>>, paramName |-> <<>>, params |-> <<>>,
     malformed |-> FALSE, priorText |-> <<>>, ignoring |-> FALSE, finished |-> FALSE,
     events |-> <<>>]

Emit(p, e) == [p EXCEPT !.events = Append(@, e)]

EmitText(p, text) ==
    IF text = <<>> THEN p
    ELSE [Emit(p, TextEv(text)) EXCEPT !.priorText = @ \o text]

EmitThinking(p, text) == IF text = <<>> THEN p ELSE Emit(p, ThinkingEv(text))

FailedEvOf(p) == FailedEvWith(p.raw, p.priorText)

\* NORMAL that takes the trigger signal whether or not a delimiter is configured
feedNormalAnyTrigger(p, c) ==
    LET b == p.buf \o <<c>>
    IN IF EndsWith(b, THINKING_OPEN)
       THEN [EmitText(p, DropLast(b, Len(THINKING_OPEN)))
                EXCEPT !.state = "THINKING", !.buf = <<>>, !.thinkingBuf = <<>>]
       ELSE IF EndsWith(b, TC_START)
       THEN [EmitText(p, DropLast(b, Len(TC_START)))
                EXCEPT !.state = "TOOL_WAIT_INVOKE", !.buf = <<>>, !.raw = TC_START,
                       !.match = <<>>]
       ELSE LET h == HeldLen(b, {THINKING_OPEN, TC_START})
            IN [EmitText(p, DropLast(b, h)) EXCEPT !.buf = SubSeq(b, Len(b) - h + 1, Len(b))]

\* NORMAL: visible text; a marker that completes switches state, a beginning of
\* a marker is held back, everything else is emitted
feedNormal(p, c) ==
    LET b == p.buf \o <<c>>
    IN IF EndsWith(b, THINKING_OPEN)
       THEN [EmitText(p, DropLast(b, Len(THINKING_OPEN)))
                EXCEPT !.state = "THINKING", !.buf = <<>>, !.thinkingBuf = <<>>]
       ELSE IF p.hasDelimiter /\ EndsWith(b, TC_START)
       THEN [EmitText(p, DropLast(b, Len(TC_START)))
                EXCEPT !.state = "TOOL_WAIT_INVOKE", !.buf = <<>>, !.raw = TC_START,
                       !.match = <<>>]
       ELSE LET h == HeldLen(b, NormalMarkers(p))
            IN [EmitText(p, DropLast(b, h)) EXCEPT !.buf = SubSeq(b, Len(b) - h + 1, Len(b))]

feedThinking(p, c) ==
    LET b == p.thinkingBuf \o <<c>>
    IN IF EndsWith(b, THINKING_CLOSE)
       THEN [EmitThinking(p, DropLast(b, Len(THINKING_CLOSE)))
                EXCEPT !.state = "NORMAL", !.thinkingBuf = <<>>]
       ELSE [p EXCEPT !.thinkingBuf = b]

feedWaitInvoke(p, c) ==
    LET q == [p EXCEPT !.raw = @ \o <<c>>]
        m == p.match \o <<c>>
    IN IF p.malformed THEN q
       ELSE IF p.match = <<>> /\ c \in Whitespace THEN q
       ELSE IF m = INVOKE_OPEN THEN [q EXCEPT !.state = "TOOL_NAME", !.match = <<>>]
       ELSE IF StartsWith(INVOKE_OPEN, m) THEN [q EXCEPT !.match = m]
       ELSE [q EXCEPT !.malformed = TRUE, !.match = <<>>]

feedToolName(p, c) ==
    LET q == [p EXCEPT !.raw = @ \o <<c>>]
        m == p.match \o <<c>>
    IN IF EndsWith(m, ATTR_CLOSE)
       THEN [q EXCEPT !.toolName = DropLast(m, Len(ATTR_CLOSE)),
                      !.malformed = @ \/ DropLast(m, Len(ATTR_CLOSE)) = <<>>,
                      !.state = "TOOL_BODY", !.match = <<>>]
       ELSE [q EXCEPT !.match = m]

\* TOOL_DONE that goes on reading the upstream text as visible text
toolDoneKeepsReading(p) ==
    [Emit(p, IF p.malformed THEN FailedEvOf(p) ELSE ToolCallEv(p.toolName, p.params))
        EXCEPT !.state = "NORMAL", !.match = <<>>]

\* TOOL_DONE: the call is emitted, or the failure when it is malformed; what
\* the upstream sends after it is ignored
toolDone(p) ==
    [Emit(p, IF p.malformed THEN FailedEvOf(p) ELSE ToolCallEv(p.toolName, p.params))
        EXCEPT !.state = "NORMAL", !.ignoring = TRUE, !.match = <<>>]

feedToolBody(p, c) ==
    LET q == [p EXCEPT !.raw = @ \o <<c>>]
        m == p.match \o <<c>>
    IN IF EndsWith(m, PARAM_OPEN)
       THEN [q EXCEPT !.state = "TOOL_PARAM_NAME", !.match = <<>>,
                      !.malformed = @ \/ ~IsBlank(DropLast(m, Len(PARAM_OPEN)))]
       ELSE IF EndsWith(m, INVOKE_CLOSE)
       THEN toolDone([q EXCEPT !.malformed = @ \/ ~IsBlank(DropLast(m, Len(INVOKE_CLOSE)))])
       ELSE [q EXCEPT !.match = m]

feedParamName(p, c) ==
    LET q == [p EXCEPT !.raw = @ \o <<c>>]
        m == p.match \o <<c>>
    IN IF EndsWith(m, ATTR_CLOSE)
       THEN [q EXCEPT !.paramName = DropLast(m, Len(ATTR_CLOSE)),
                      !.malformed = @ \/ DropLast(m, Len(ATTR_CLOSE)) = <<>>,
                      !.state = "TOOL_PARAM_VALUE", !.match = <<>>]
       ELSE [q EXCEPT !.match = m]

feedParamValue(p, c) ==
    LET q == [p EXCEPT !.raw = @ \o <<c>>]
        m == p.match \o <<c>>
    IN IF EndsWith(m, PARAM_CLOSE)
       THEN [q EXCEPT !.params = Append(@, <<p.paramName,
                                             parseValue(DropLast(m, Len(PARAM_CLOSE)))>>),
                      !.state = "TOOL_BODY", !.match = <<>>]
       ELSE [q EXCEPT !.match = m]

feedChar(p, c) ==
    IF p.ignoring THEN p
    ELSE CASE p.state = "NORMAL" -> feedNormal(p, c)
           [] p.state = "THINKING" -> feedThinking(p, c)
           [] p.state = "TOOL_WAIT_INVOKE" -> feedWaitInvoke(p, c)
           [] p.state = "TOOL_NAME" -> feedToolName(p, c)
           [] p.state = "TOOL_BODY" -> feedToolBody(p, c)
           [] p.state = "TOOL_PARAM_NAME" -> feedParamName(p, c)
           [] p.state = "TOOL_PARAM_VALUE" -> feedParamValue(p, c)

\* for (const char of text) parser.feedChar(char): the characters in order,
\* the text taken by halves
RECURSIVE feed(_, _)
feed(p, text) ==
    IF text = <<>> THEN p
    ELSE IF Len(text) = 1 THEN feedChar(p, text[1])
    ELSE LET half == Len(text) \div 2
         IN CHOOSE r \in { IF q.finished THEN q
                           ELSE feed(q, SubSeq(text, half + 1, Len(text))) :
                              q \in { feed(p, SubSeq(text, 1, half)) } } : TRUE

\* finish() that drops an unfinished tool call
parserFinishDroppingCall(p) ==
    LET q == CASE p.ignoring -> p
               [] p.state = "NORMAL" -> [EmitText(p, p.buf) EXCEPT !.buf = <<>>]
               [] p.state = "THINKING" ->
                    [EmitThinking(p, p.thinkingBuf) EXCEPT !.thinkingBuf = <<>>]
               [] OTHER -> p
    IN [Emit(q, EndEv) EXCEPT !.finished = TRUE]

\* finish(): what is still buffered goes out, an unfinished tool call fails,
\* then the end event
parserFinish(p) ==
    LET q == CASE p.ignoring -> p
               [] p.state = "NORMAL" -> [EmitText(p, p.buf) EXCEPT !.buf = <<>>]
               [] p.state = "THINKING" ->
                    [EmitThinking(p, p.thinkingBuf) EXCEPT !.thinkingBuf = <<>>]
               [] OTHER -> Emit(p, FailedEvOf(p))
    IN [Emit(q, EndEv) EXCEPT !.finished = TRUE]

(***************************************************************************)
(* SSEWriter.send and the frames                                           *)
(***************************************************************************)
Frame(ev, idx, kind, data) == [event |-> ev, index |-> idx, kind |-> kind, data |-> data]

\* A writer state w is [ctx, agg, out]: the context, the aggregator's buffer
\* and the frames sent.
Send(w, fr) == [w EXCEPT !.out = Append(@, fr)]

RECURSIVE SendDeltas(_, _, _, _)
SendDeltas(w, idx, kind, chunks) ==
    IF chunks = <<>> THEN w
    ELSE SendDeltas(Send(w, Frame("content_block_delta", idx, kind, Head(chunks))),
                    idx, kind, Tail(chunks))

(***************************************************************************)
(* ClaudeStream                                                            *)
(***************************************************************************)
NewContext ==
    [nextBlockIndex |-> 0, textBlockOpen |-> FALSE, thinkingBlockOpen |-> FALSE,
     finished |-> FALSE, totalOutputTokens |-> 0, hasToolCalls |-> FALSE]

init(w) ==
    Send(Send(w, Frame("message_start", NoIndex, "", <<>>)),
         Frame("ping", NoIndex, "", <<>>))

\* a text block that takes the current index without advancing nextBlockIndex
ensureTextBlockReusingIndex(w) ==
    IF ~w.ctx.textBlockOpen
    THEN Send([w EXCEPT !.ctx.textBlockOpen = TRUE],
              Frame("content_block_start", w.ctx.nextBlockIndex, "text", <<>>))
    ELSE w

ensureTextBlock(w) ==
    IF ~w.ctx.textBlockOpen
    THEN Send([w EXCEPT !.ctx.nextBlockIndex = @ + 1, !.ctx.textBlockOpen = TRUE],
              Frame("content_block_start", w.ctx.nextBlockIndex, "text", <<>>))
    ELSE w

flushText(w, text) ==
    IF text = <<>> THEN w
    ELSE LET w1 == ensureTextBlock(w)
             w2 == [w1 EXCEPT !.ctx.totalOutputTokens = @ + countTokens(text)]
         IN Send(w2, Frame("content_block_delta", w2.ctx.nextBlockIndex - 1,
                           "text_delta", text))

\* endTextBlock without the textBlockOpen guard
endTextBlockUnguarded(w) ==
    Send([w EXCEPT !.ctx.textBlockOpen = FALSE],
         Frame("content_block_stop", w.ctx.nextBlockIndex - 1, "", <<>>))

endTextBlock(w) ==
    IF ~w.ctx.textBlockOpen THEN w
    ELSE Send([w EXCEPT !.ctx.textBlockOpen = FALSE],
              Frame("content_block_stop", w.ctx.nextBlockIndex - 1, "", <<>>))

\* ensureThinkingBlock that starts a block for every Thinking content
ensureThinkingBlockEveryTime(w) ==
    Send([w EXCEPT !.ctx.nextBlockIndex = @ + 1, !.ctx.thinkingBlockOpen = TRUE],
         Frame("content_block_start", w.ctx.nextBlockIndex, "thinking", <<>>))

ensureThinkingBlock(w) ==
    IF ~w.ctx.thinkingBlockOpen
    THEN Send([w EXCEPT !.ctx.nextBlockIndex = @ + 1, !.ctx.thinkingBlockOpen = TRUE],
              Frame("content_block_start", w.ctx.nextBlockIndex, "thinking", <<>>))
    ELSE w

endThinkingBlock(w) ==
    IF ~w.ctx.thinkingBlockOpen THEN w
    ELSE LET index == w.ctx.nextBlockIndex - 1
             w1 == [w EXCEPT !.ctx.thinkingBlockOpen = FALSE]
         IN Send(Send(w1, Frame("content_block_delta", index, "signature_delta", <<>>)),
                 Frame("content_block_stop", index, "", <<>>))

emitThinking(w, content) ==
    IF content = <<>> THEN w
    ELSE LET w1 == ensureThinkingBlock(w)
             w2 == [w1 EXCEPT !.ctx.totalOutputTokens = @ + countTokens(content)]
         IN SendDeltas(w2, w2.ctx.nextBlockIndex - 1, "thinking_delta", Chunks(content))

\* emitToolCall that forgets hasToolCalls
emitToolCallUnmarked(w, call) ==
    LET w1 == endTextBlock(w)
        index == w1.ctx.nextBlockIndex
        w2 == [w1 EXCEPT !.ctx.nextBlockIndex = @ + 1]
        w3 == Send(w2, Frame("content_block_start", index, "tool_use", call.name))
        inputJson == JSONStringify(call.arguments)
        w4 == [w3 EXCEPT !.ctx.totalOutputTokens = @ + countTokens(inputJson)]
        w5 == SendDeltas(w4, index, "input_json_delta", Chunks(inputJson))
    IN Send(w5, Frame("content_block_stop", index, "", <<>>))

emitToolCall(w, call) ==
    LET w1 == endTextBlock(w)
        index == w1.ctx.nextBlockIndex
        w2 == [w1 EXCEPT !.ctx.nextBlockIndex = @ + 1, !.ctx.hasToolCalls = TRUE]
        w3 == Send(w2, Frame("content_block_start", index, "tool_use", call.name))
        inputJson == JSONStringify(call.arguments)
        w4 == [w3 EXCEPT !.ctx.totalOutputTokens = @ + countTokens(inputJson)]
        w5 == SendDeltas(w4, index, "input_json_delta", Chunks(inputJson))
    IN Send(w5, Frame("content_block_stop", index, "", <<>>))

\* TextAggregator.add: the text joins the buffer; the flush comes later
aggregatorAdd(w, text) == [w EXCEPT !.agg = @ \o text]

\* TextAggregator.flushAsync, and the flush of the interval timer: the whole
\* buffer goes to the flush callback (flushText), and the buffer is emptied
flushAsync(w) == flushText([w EXCEPT !.agg = <<>>], w.agg)

\* finish that leaves an open thinking block open
finishLeavingThinkingOpen(w) ==
    IF w.ctx.finished THEN w
    ELSE LET w1 == [w EXCEPT !.ctx.finished = TRUE]
             w2 == endTextBlock(flushAsync(w1))
             stopReason == IF w2.ctx.hasToolCalls THEN "tool_use" ELSE "end_turn"
         IN Send(Send(w2, Frame("message_delta", NoIndex, stopReason, <<>>)),
                 Frame("message_stop", NoIndex, "", <<>>))

finish(w) ==
    IF w.ctx.finished THEN w
    ELSE LET w1 == [w EXCEPT !.ctx.finished = TRUE]
             w2 == endThinkingBlock(endTextBlock(flushAsync(w1)))
             stopReason == IF w2.ctx.hasToolCalls THEN "tool_use" ELSE "end_turn"
         IN Send(Send(w2, Frame("message_delta", NoIndex, stopReason, <<>>)),
                 Frame("message_stop", NoIndex, "", <<>>))

\* handleEvent whose tool_call branch does not flush the aggregator first
handleEventToolCallUnflushed(w, event) ==
    CASE event.type = "text" ->
           aggregatorAdd(IF w.ctx.thinkingBlockOpen THEN endThinkingBlock(w) ELSE w,
                         event.content)
      [] event.type = "thinking" ->
           emitThinking(endTextBlock(flushAsync(w)), event.content)
      [] event.type = "tool_call" ->
           emitToolCall(endThinkingBlock(endTextBlock(w)), event)
      [] event.type = "end" -> finish(w)
      [] OTHER -> w

\* handleEvent whose thinking branch leaves an open text block open
handleEventThinkingOverText(w, event) ==
    CASE event.type = "text" ->
           aggregatorAdd(IF w.ctx.thinkingBlockOpen THEN endThinkingBlock(w) ELSE w,
                         event.content)
      [] event.type = "thinking" ->
           emitThinking(flushAsync(w), event.content)
      [] event.type = "tool_call" ->
           emitToolCall(endThinkingBlock(endTextBlock(flushAsync(w))), event)
      [] event.type = "end" -> finish(w)
      [] OTHER -> w

handleEvent(w, event) ==
    CASE event.type = "text" ->
           aggregatorAdd(IF w.ctx.thinkingBlockOpen THEN endThinkingBlock(w) ELSE w,
                         event.content)
      [] event.type = "thinking" ->
           emitThinking(endTextBlock(flushAsync(w)), event.content)
      [] event.type = "tool_call" ->
           emitToolCall(endThinkingBlock(endTextBlock(flushAsync(w))), event)
      [] event.type = "end" -> finish(w)
      [] OTHER -> w

RECURSIVE handleEvents(_, _)
handleEvents(w, events) ==
    IF events = <<>> THEN w
    ELSE handleEvents(handleEvent(w, Head(events)), Tail(events))

(***************************************************************************)
(* The writer as an object: any parser event may be handed to handleEvents *)
(* at any time after init(), and the aggregator's timer may fire whenever  *)
(* text is buffered.                                                       *)
(***************************************************************************)
CurW == [ctx |-> context, agg |-> aggregator, out |-> frames]

SetW(w) == context' = w.ctx /\ aggregator' = w.agg /\ frames' = w.out

NoEvent == [type |-> "none", content |-> <<>>, name |-> <<>>, arguments |-> <<>>,
    priorText |-> <<>>]

NoRetryCfg == [enabled |-> FALSE, keepAlive |-> FALSE, maxRetries |-> 0, eligible |-> FALSE]

ParserIdle ==
    /\ parser = NewParser(FALSE)
    /\ fed = <<>>
    /\ pevents = <<>>

ReadIdle ==
    /\ body = <<>>
    /\ stream = <<>>
    /\ buffer = <<>>

NoCall == [fn |-> "none"]

PureIdle ==
    /\ given = NoCall
    /\ returned = NoCall

WriterIdle ==
    /\ context = NewContext
    /\ aggregator = <<>>
    /\ frames = <<>>
    /\ evlog = <<>>
    /\ hpc = "new"
    /\ retryCfg = NoRetryCfg
    /\ failedEvent = NoEvent
    /\ attempt = 0
    /\ retryCalls = 0
    /\ retrySuccess = FALSE
    /\ callsAfterSuccess = 0
    /\ branch = "none"
    /\ framesAtRetry = 0

Init == WriterIdle /\ ParserIdle /\ ReadIdle /\ PureIdle

Hand(event) ==
    /\ hpc = "open"
    /\ Len(evlog) < MaxEvents
    /\ SetW(handleEvents(CurW, <<event>>))
    /\ evlog' = Append(evlog, event)
    /\ UNCHANGED <<parserVars, readVars, pureVars>>
    /\ UNCHANGED handlerVars

StreamInit ==
    /\ hpc = "new"
    /\ SetW(init(CurW))
    /\ hpc' = "open"
    /\ UNCHANGED <<parserVars, readVars, pureVars>>
    /\ UNCHANGED <<evlog, retryCfg, failedEvent, attempt, retryCalls, retrySuccess,
                   callsAfterSuccess, branch, framesAtRetry>>

HandText == \E c \in TextContents : Hand(TextEv(c))

HandThinking == \E c \in ThinkingContents : Hand(ThinkingEv(c))

HandToolCall == \E n \in ToolNames, a \in ToolArgs : Hand(ToolCallEv(n, a))

HandFailed == \E c \in FailedContents : Hand(FailedEv(c))

HandEnd == Hand(EndEv)

\* the interval timer of the aggregator fires
TimerFlush ==
    /\ aggregator # <<>>
    /\ SetW(flushAsync(CurW))
    /\ UNCHANGED <<parserVars, readVars, pureVars>>
    /\ UNCHANGED <<evlog, handlerVars>>

Next ==
    \/ StreamInit
    \/ HandText
    \/ HandThinking
    \/ HandToolCall
    \/ HandFailed
    \/ HandEnd
    \/ TimerFlush

Spec == Init /\ [][Next]_vars

(***************************************************************************)
(* The stream handler (handleOpenAIStream, handleAnthropicStream): init,   *)
(* the read loop handing the parser's events to the writer, parser.finish, *)
(* then either the retry branch or the plain hand-over of the last events. *)
(***************************************************************************)
RetryCfgs ==
    [enabled : BOOLEAN, keepAlive : BOOLEAN, maxRetries : 0..MaxRetriesBound,
     eligible : BOOLEAN]

\* what parser.consumeEvents() returns after parser.finish()
FinishEventSeqs ==
    { <<EndEv>>,
      <<TextEv(<<"a">>), EndEv>>,
      <<ToolCallEv(<<"f">>, <<>>), EndEv>> }
    \cup { <<FailedEv(c), EndEv>> : c \in FailedContents }
    \cup { <<TextEv(<<"a">>), FailedEv(c), EndEv>> : c \in FailedContents }

\* events.find(e => e.type === "tool_call_failed")
findFailed(events) ==
    LET P == { i \in 1..Len(events) : events[i].type = "tool_call_failed" }
    IN IF P = {} THEN NoEvent ELSE events[CHOOSE i \in P : \A j \in P : i <= j]

\* config.toolCallRetry?.maxRetries || 1
effectiveMaxRetries(cfg) == IF cfg.maxRetries = 0 THEN 1 ELSE cfg.maxRetries

maxRetries == effectiveMaxRetries(retryCfg)

Ping == Frame("ping", NoIndex, "", <<>>)

HInit ==
    /\ PureIdle
    /\ context = NewContext
    /\ aggregator = <<>>
    /\ frames = <<>>
    /\ evlog = <<>>
    /\ hpc = "start"
    /\ retryCfg \in RetryCfgs
    /\ failedEvent = NoEvent
    /\ attempt = 0
    /\ retryCalls = 0
    /\ retrySuccess = FALSE
    /\ callsAfterSuccess = 0
    /\ branch = "none"
    /\ framesAtRetry = 0
    /\ ParserIdle
    /\ ReadIdle

\* await claudeStream.init(); const reader = response.body?.getReader()
HStart ==
    /\ hpc = "start"
    /\ SetW(init(CurW))
    /\ hpc' = "reading"
    /\ UNCHANGED <<parserVars, readVars, pureVars>>
    /\ UNCHANGED <<evlog, retryCfg, failedEvent, attempt, retryCalls, retrySuccess,
                   callsAfterSuccess, branch, framesAtRetry>>

\* if (!reader) return
HNoBody ==
    /\ hpc = "start"
    /\ SetW(init(CurW))
    /\ hpc' = "returned"
    /\ UNCHANGED <<parserVars, readVars, pureVars>>
    /\ UNCHANGED <<evlog, retryCfg, failedEvent, attempt, retryCalls, retrySuccess,
                   callsAfterSuccess, branch, framesAtRetry>>

\* parser.feedChar(char); await claudeStream.handleEvents(parser.consumeEvents())
HFeed(event) ==
    /\ hpc = "reading"
    /\ Len(evlog) < MaxFeed
    /\ SetW(handleEvents(CurW, <<event>>))
    /\ evlog' = Append(evlog, event)
    /\ UNCHANGED <<parserVars, readVars, pureVars>>
    /\ UNCHANGED handlerVars

HFeedText == \E c \in TextContents \ {<<>>} : HFeed(TextEv(c))

HFeedThinking == \E c \in ThinkingContents \ {<<>>} : HFeed(ThinkingEv(c))

HFeedToolCall == \E n \in ToolNames : HFeed(ToolCallEv(n, <<>>))

\* String(readError): a failed connection, or the AbortError of a fetch whose
\* signal fired because the client went away
ConnectionError == <<"r", "e", "s", "e", "t">>
AbortError == <<"a", "b", "o", "r", "t">>

\* reader.read() throws: the error frame is sent and the read loop is left
HReadError ==
    /\ hpc = "reading"
    /\ \E readError \in {ConnectionError, AbortError} :
          frames' = Append(frames, Frame("error", NoIndex, "stream_error", readError))
    /\ hpc' = "finish"
    /\ UNCHANGED <<parserVars, readVars, pureVars>>
    /\ UNCHANGED <<context, aggregator, evlog, retryCfg, failedEvent, attempt, retryCalls,
                   retrySuccess, callsAfterSuccess, branch, framesAtRetry>>

\* reader.read() reports done
HStreamDone ==
    /\ hpc = "reading"
    /\ hpc' = "finish"
    /\ UNCHANGED <<parserVars, readVars, pureVars>>
    /\ UNCHANGED <<writerVars, retryCfg, failedEvent, attempt, retryCalls, retrySuccess,
                   callsAfterSuccess, branch, framesAtRetry>>

retryWanted(failed, cfg) == failed # NoEvent /\ cfg.enabled /\ cfg.eligible

\* parser.finish(); a failed event is found and retry applies: the first ping
HFinishRetry ==
    /\ hpc = "finish"
    /\ \E events \in FinishEventSeqs :
        /\ retryWanted(findFailed(events), retryCfg)
        /\ failedEvent' = findFailed(events)
    /\ frames' = IF retryCfg.keepAlive THEN Append(frames, Ping) ELSE frames
    /\ framesAtRetry' = Len(frames)
    /\ attempt' = 1
    /\ retrySuccess' = FALSE
    /\ branch' = "retry"
    /\ hpc' = "retry"
    /\ UNCHANGED <<parserVars, readVars, pureVars>>
    /\ UNCHANGED <<context, aggregator, evlog, retryCfg, retryCalls, callsAfterSuccess>>

\* parser.finish(); no retry: await claudeStream.handleEvents(events)
HFinishPlain ==
    /\ hpc = "finish"
    /\ \E events \in FinishEventSeqs :
        /\ ~retryWanted(findFailed(events), retryCfg)
        /\ failedEvent' = findFailed(events)
        /\ SetW(handleEvents(CurW, events))
        /\ evlog' = evlog \o events
    /\ branch' = "plain"
    /\ hpc' = "done"
    /\ UNCHANGED <<parserVars, readVars, pureVars>>
    /\ UNCHANGED <<retryCfg, attempt, retryCalls, retrySuccess, callsAfterSuccess,
                   framesAtRetry>>

\* a retry pass that leaves the loop running after a success
HRetrySucceedsNoBreak ==
    /\ hpc = "retry"
    /\ attempt <= maxRetries
    /\ \E n \in ToolNames, a \in ToolArgs :
        /\ SetW(handleEvents(CurW, <<ToolCallEv(n, a)>>))
        /\ evlog' = Append(evlog, ToolCallEv(n, a))
    /\ retryCalls' = retryCalls + 1
    /\ callsAfterSuccess' = IF retrySuccess THEN callsAfterSuccess + 1 ELSE callsAfterSuccess
    /\ retrySuccess' = TRUE
    /\ attempt' = attempt + 1
    /\ UNCHANGED <<parserVars, readVars, pureVars>>
    /\ UNCHANGED <<hpc, retryCfg, failedEvent, branch, framesAtRetry>>

\* one pass of the retry loop whose retry call returns a well-formed tool call
HRetrySucceeds ==
    /\ hpc = "retry"
    /\ attempt <= maxRetries
    /\ \E n \in ToolNames, a \in ToolArgs :
        /\ SetW(handleEvents(CurW, <<ToolCallEv(n, a)>>))
        /\ evlog' = Append(evlog, ToolCallEv(n, a))
    /\ retryCalls' = retryCalls + 1
    /\ callsAfterSuccess' = IF retrySuccess THEN callsAfterSuccess + 1 ELSE callsAfterSuccess
    /\ retrySuccess' = TRUE
    /\ hpc' = "afterLoop"
    /\ UNCHANGED <<parserVars, readVars, pureVars>>
    /\ UNCHANGED <<retryCfg, failedEvent, attempt, branch, framesAtRetry>>

\* one pass whose retry call fails, with no ping before the next attempt
HRetryFailsNoPing ==
    /\ hpc = "retry"
    /\ attempt <= maxRetries
    /\ retryCalls' = retryCalls + 1
    /\ callsAfterSuccess' = IF retrySuccess THEN callsAfterSuccess + 1 ELSE callsAfterSuccess
    /\ attempt' = attempt + 1
    /\ UNCHANGED <<parserVars, readVars, pureVars>>
    /\ UNCHANGED <<writerVars, hpc, retryCfg, failedEvent, retrySuccess,
                   branch, framesAtRetry>>

\* one pass of the retry loop whose retry call fails
HRetryFails ==
    /\ hpc = "retry"
    /\ attempt <= maxRetries
    /\ retryCalls' = retryCalls + 1
    /\ callsAfterSuccess' = IF retrySuccess THEN callsAfterSuccess + 1 ELSE callsAfterSuccess
    /\ frames' = IF attempt < maxRetries /\ retryCfg.keepAlive
                 THEN Append(frames, Ping) ELSE frames
    /\ attempt' = attempt + 1
    /\ UNCHANGED <<parserVars, readVars, pureVars>>
    /\ UNCHANGED <<context, aggregator, evlog, hpc, retryCfg, failedEvent, retrySuccess,
                   branch, framesAtRetry>>

\* attempt <= maxRetries fails: the loop is left
HLoopExit ==
    /\ hpc = "retry"
    /\ attempt > maxRetries
    /\ hpc' = "afterLoop"
    /\ UNCHANGED <<parserVars, readVars, pureVars>>
    /\ UNCHANGED <<writerVars, retryCfg, failedEvent, attempt, retryCalls, retrySuccess,
                   callsAfterSuccess, branch, framesAtRetry>>

\* after the loop the failed text is handed on as text whatever the outcome
HAfterLoopAlwaysText ==
    /\ hpc = "afterLoop"
    /\ SetW(handleEvents(CurW, <<TextEv(failedEvent.content)>>))
    /\ evlog' = Append(evlog, TextEv(failedEvent.content))
    /\ hpc' = "done"
    /\ UNCHANGED <<parserVars, readVars, pureVars>>
    /\ UNCHANGED <<retryCfg, failedEvent, attempt, retryCalls, retrySuccess,
                   callsAfterSuccess, branch, framesAtRetry>>

\* if (!retrySuccess) await claudeStream.handleEvents([{type: "text", ...}])
HAfterLoop ==
    /\ hpc = "afterLoop"
    /\ IF ~retrySuccess
       THEN /\ SetW(handleEvents(CurW, <<TextEv(failedEvent.content)>>))
            /\ evlog' = Append(evlog, TextEv(failedEvent.content))
       ELSE UNCHANGED writerVars
    /\ hpc' = "done"
    /\ UNCHANGED <<parserVars, readVars, pureVars>>
    /\ UNCHANGED <<retryCfg, failedEvent, attempt, retryCalls, retrySuccess,
                   callsAfterSuccess, branch, framesAtRetry>>

HNext ==
    \/ HStart
    \/ HNoBody
    \/ HFeedText
    \/ HFeedThinking
    \/ HFeedToolCall
    \/ HReadError
    \/ HStreamDone
    \/ HFinishRetry
    \/ HFinishPlain
    \/ HRetrySucceeds
    \/ HRetryFails
    \/ HLoopExit
    \/ HAfterLoop
    \/ TimerFlush

HandlerSpec == HInit /\ [][HNext]_vars

\* Every await of the handler returns (each upstream call is under the request
\* timeout), and the aggregator's interval timer fires while text is buffered.
HandlerSteps ==
    \/ HFinishRetry
    \/ HFinishPlain
    \/ HRetrySucceeds
    \/ HRetryFails
    \/ HLoopExit
    \/ HAfterLoop

FairHandlerSpec ==
    HInit /\ [][HNext]_vars /\ WF_vars(HandlerSteps) /\ WF_vars(TimerFlush)

(***************************************************************************)
(* The parser on an upstream text that arrives in chunks                   *)
(***************************************************************************)
InvokeBlock ==
    INVOKE_OPEN \o <<"f">> \o ATTR_CLOSE \o <<"\n">>
    \o PARAM_OPEN \o <<"k">> \o ATTR_CLOSE \o <<"\"", "v", "\"">> \o PARAM_CLOSE
    \o <<"\n">> \o INVOKE_CLOSE

UpstreamChunks ==
    { <<"a">>, <<"\n">>, <<"<">>, TC_START, THINKING_OPEN, THINKING_CLOSE,
      InvokeBlock, INVOKE_OPEN \o <<"f">> \o ATTR_CLOSE }

PInit ==
    /\ PureIdle
    /\ WriterIdle
    /\ parser \in { NewParser(d) : d \in BOOLEAN }
    /\ fed = <<>>
    /\ pevents = <<>>
    /\ ReadIdle

\* a chunk of upstream text is fed character by character, then consumeEvents()
PFeedChunk ==
    /\ ~parser.finished
    /\ Len(fed) < MaxChunks
    /\ \E chunk \in UpstreamChunks :
        /\ LET q == feed(parser, chunk)
           IN /\ parser' = [q EXCEPT !.events = <<>>]
              /\ pevents' = pevents \o q.events
        /\ fed' = Append(fed, chunk)
    /\ UNCHANGED <<writerVars, handlerVars, readVars, pureVars>>

PFinish ==
    /\ ~parser.finished
    /\ LET q == parserFinish(parser)
       IN /\ parser' = [q EXCEPT !.events = <<>>]
          /\ pevents' = pevents \o q.events
    /\ UNCHANGED fed
    /\ UNCHANGED <<writerVars, handlerVars, readVars, pureVars>>

PNext == PFeedChunk \/ PFinish

ParserSpec == PInit /\ [][PNext]_vars

(***************************************************************************)
(* The parser on an upstream text that follows the tool-call layout, cut   *)
(* off anywhere: text, TC_START, whitespace, <invoke name="N">,            *)
(* <parameter name="P">V</parameter> children, </invoke>                   *)
(***************************************************************************)
CallTexts == { <<"a">>, <<"a", "<">> }
CallSpaces == { <<"\n">>, <<" ", "\n">> }
CallNames == { <<"f">>, <<"g", "o">> }
CallParamNames == { <<"k">>, <<"c">> }

\* parameter values as sent (src) and as the arguments hold them (val): a JSON
\* string, a string that is not JSON, and a string JSON.parse rejects
CallValues ==
    { [src |-> <<"\"", "x", "\"">>, val |-> <<"x">>],
      [src |-> <<"y">>, val |-> <<"y">>],
      [src |-> <<"\"", "q">>, val |-> <<"\"", "q">>] }

NameChunks == { n \o ATTR_CLOSE : n \in CallNames }
ParamOpenChunks == { PARAM_OPEN, <<"\n">> \o PARAM_OPEN }
ParamNameChunks == { n \o ATTR_CLOSE : n \in CallParamNames }
ValueChunks == { v.src \o PARAM_CLOSE : v \in CallValues }
InvokeCloseChunks == { INVOKE_CLOSE, <<"\n">> \o INVOKE_CLOSE }

\* the chunks the layout allows after the chunks sent so far
FollowChunks(sent) ==
    IF sent = <<>> THEN CallTexts \cup {TC_START}
    ELSE LET last == sent[Len(sent)]
         IN CASE last \in CallTexts -> {TC_START}
              [] last = TC_START -> CallSpaces \cup {INVOKE_OPEN}
              [] last \in CallSpaces -> {INVOKE_OPEN}
              [] last = INVOKE_OPEN -> NameChunks
              [] last \in NameChunks -> ParamOpenChunks \cup InvokeCloseChunks
              [] last \in ParamOpenChunks -> ParamNameChunks
              [] last \in ParamNameChunks -> ValueChunks
              [] last \in ValueChunks -> ParamOpenChunks \cup InvokeCloseChunks
              [] OTHER -> {}

CInit ==
    /\ PureIdle
    /\ WriterIdle
    /\ parser = NewParser(TRUE)
    /\ fed = <<>>
    /\ pevents = <<>>
    /\ ReadIdle

CFeedChunk ==
    /\ ~parser.finished
    /\ Len(fed) < MaxCallChunks
    /\ \E chunk \in FollowChunks(fed) :
        /\ LET q == feed(parser, chunk)
           IN /\ parser' = [q EXCEPT !.events = <<>>]
              /\ pevents' = pevents \o q.events
        /\ fed' = Append(fed, chunk)
    /\ UNCHANGED <<writerVars, handlerVars, readVars, pureVars>>

CNext == CFeedChunk \/ PFinish

ToolCallSpec == CInit /\ [][CNext]_vars

(***************************************************************************)
(* The read loop of handleOpenAIStream on an upstream body that arrives in *)
(* reads of any size.  A byte of the body is one of "\n", "\r", a          *)
(* character of the content, or a piece of the fixed syntax: "da" "ta: "   *)
(* for the data prefix, "{c:" ... "}" for the JSON of a content delta,     *)
(* "[DO" "NE]" for the end marker.                                         *)
(***************************************************************************)
DATA_PREFIX == <<"da", "ta: ">>
DONE_MARKER == <<"[DO", "NE]">>
LF == <<"\n">>
CRLF == <<"\r", "\n">>

\* buffer.split("\n")
split(s) ==
    LET P == { i \in 1..Len(s) : s[i] = "\n" }
        n == Cardinality(P)
        pos(k) == CHOOSE i \in P : Cardinality({ j \in P : j < i }) = k - 1
        from(k) == IF k = 1 THEN 1 ELSE pos(k - 1) + 1
    IN [k \in 1..(n + 1) |-> SubSeq(s, from(k), IF k <= n THEN pos(k) - 1 ELSE Len(s))]

\* line.trim()
trim(line) ==
    LET I == { i \in 1..Len(line) : line[i] \notin Whitespace }
    IN IF I = {} THEN <<>>
       ELSE SubSeq(line, CHOOSE i \in I : \A j \in I : i <= j,
                         CHOOSE i \in I : \A j \in I : j <= i)

\* JSON.parse(jsonStr) and data.choices?.[0]?.delta?.content; a string that is
\* not JSON throws
parseDelta(jsonStr) ==
    IF Len(jsonStr) >= 2 /\ jsonStr[1] = "{c:" /\ jsonStr[Len(jsonStr)] = "}"
    THEN [ok |-> TRUE, content |-> SubSeq(jsonStr, 2, Len(jsonStr) - 1)]
    ELSE [ok |-> FALSE, content |-> <<>>]

\* the loop over the lines, left at the first data line that is not JSON
RECURSIVE lineContentsMalformedBreaks(_)
lineContentsMalformedBreaks(lines) ==
    IF lines = <<>> THEN <<>>
    ELSE LET trimmed == trim(Head(lines))
             jsonStr == DropFirst(trimmed, Len(DATA_PREFIX))
             delta == parseDelta(jsonStr)
         IN IF trimmed = <<>> \/ ~StartsWith(trimmed, DATA_PREFIX)
            THEN lineContentsMalformedBreaks(Tail(lines))
            ELSE IF jsonStr = DONE_MARKER \/ ~delta.ok THEN <<>>
            ELSE IF delta.content # <<>>
            THEN <<delta.content>> \o lineContentsMalformedBreaks(Tail(lines))
            ELSE lineContentsMalformedBreaks(Tail(lines))

\* for (const line of lines): the contents to feed to the parser, in order;
\* [DONE] leaves the loop over the lines of this read
RECURSIVE lineContents(_)
lineContents(lines) ==
    IF lines = <<>> THEN <<>>
    ELSE LET trimmed == trim(Head(lines))
             jsonStr == DropFirst(trimmed, Len(DATA_PREFIX))
             delta == parseDelta(jsonStr)
         IN IF trimmed = <<>> \/ ~StartsWith(trimmed, DATA_PREFIX)
            THEN lineContents(Tail(lines))
            ELSE IF jsonStr = DONE_MARKER THEN <<>>
            ELSE IF delta.ok /\ delta.content # <<>>
            THEN <<delta.content>> \o lineContents(Tail(lines))
            ELSE lineContents(Tail(lines))

DataLine(content) == DATA_PREFIX \o <<"{c:">> \o content \o <<"}">>

UpstreamLines ==
    { DataLine(<<"a">>),
      DataLine(SubSeq(TC_START, 1, 7)),
      DataLine(SubSeq(TC_START, 8, Len(TC_START))),
      DATA_PREFIX \o DONE_MARKER,
      <<>>,
      DATA_PREFIX \o <<"{c:", "a">> }

RECURSIVE JoinLines(_, _, _)
JoinLines(ls, nl, terminated) ==
    IF ls = <<>> THEN <<>>
    ELSE Head(ls) \o (IF Len(ls) > 1 \/ terminated THEN nl ELSE <<>>)
         \o JoinLines(Tail(ls), nl, terminated)

UpstreamBodies ==
    { JoinLines(ls, nl, terminated) :
        ls \in UNION { [1..n -> UpstreamLines] : n \in 1..MaxLines },
        nl \in {LF, CRLF}, terminated \in BOOLEAN }

RInit ==
    /\ PureIdle
    /\ context = NewContext
    /\ aggregator = <<>>
    /\ frames = <<>>
    /\ evlog = <<>>
    /\ hpc = "start"
    /\ retryCfg = NoRetryCfg
    /\ failedEvent = NoEvent
    /\ attempt = 0
    /\ retryCalls = 0
    /\ retrySuccess = FALSE
    /\ callsAfterSuccess = 0
    /\ branch = "none"
    /\ framesAtRetry = 0
    /\ parser = NewParser(TRUE)
    /\ fed = <<>>
    /\ pevents = <<>>
    /\ stream \in UpstreamBodies
    /\ body = stream
    /\ buffer = <<>>

\* await claudeStream.init(); const reader = response.body.getReader()
RStart ==
    /\ hpc = "start"
    /\ SetW(init(CurW))
    /\ hpc' = "reading"
    /\ UNCHANGED <<parserVars, readVars, pureVars>>
    /\ UNCHANGED <<evlog, retryCfg, failedEvent, attempt, retryCalls, retrySuccess,
                   callsAfterSuccess, branch, framesAtRetry>>

\* one reader.read() that returns the next n bytes, and the loop over the
\* lines it completes
RRead ==
    /\ hpc = "reading"
    /\ body # <<>>
    /\ \E n \in 1..Len(body) :
        LET lines == split(buffer \o SubSeq(body, 1, n))
            contents == lineContents(SubSeq(lines, 1, Len(lines) - 1))
            q == feed(parser, Concat(contents))
        IN /\ buffer' = lines[Len(lines)]
           /\ body' = DropFirst(body, n)
           /\ parser' = [q EXCEPT !.events = <<>>]
           /\ pevents' = pevents \o q.events
           /\ fed' = fed \o contents
           /\ SetW(handleEvents(CurW, q.events))
           /\ evlog' = evlog \o q.events
    /\ UNCHANGED <<stream, pureVars>>
    /\ UNCHANGED handlerVars

\* reader.read() reports done; parser.finish() and, no retry being configured,
\* handleEvents(events)
RDone ==
    /\ hpc = "reading"
    /\ body = <<>>
    /\ LET q == parserFinish(parser)
       IN /\ parser' = [q EXCEPT !.events = <<>>]
          /\ pevents' = pevents \o q.events
          /\ SetW(handleEvents(CurW, q.events))
          /\ evlog' = evlog \o q.events
    /\ hpc' = "done"
    /\ branch' = "plain"
    /\ UNCHANGED <<fed, readVars, pureVars>>
    /\ UNCHANGED <<retryCfg, failedEvent, attempt, retryCalls, retrySuccess,
                   callsAfterSuccess, framesAtRetry>>

RNext == RStart \/ RRead \/ RDone

OpenAIReadSpec == RInit /\ [][RNext]_vars

(***************************************************************************)
(* The read loop of handleAnthropicStream.  The upstream body is a         *)
(* sequence of SSE events, each an `event:` line, a `data:` line and a     *)
(* blank line; "ev" "ent: " stand for the event prefix, "{t:" ... "}" for  *)
(* the JSON of a text_delta, "{m}" for the JSON of a message_start.        *)
(***************************************************************************)
EVENT_PREFIX == <<"ev", "ent: ">>

\* JSON.parse(jsonStr), data.delta?.type === "text_delta" and delta.text
parseTextDelta(jsonStr) ==
    IF Len(jsonStr) >= 2 /\ jsonStr[1] = "{t:" /\ jsonStr[Len(jsonStr)] = "}"
    THEN SubSeq(jsonStr, 2, Len(jsonStr) - 1)
    ELSE <<>>

\* for (const line of lines), with the eventType of the lines before: the
\* texts to feed to the parser, in order
RECURSIVE anthropicLineTexts(_, _)
anthropicLineTexts(lines, eventType) ==
    IF lines = <<>> THEN <<>>
    ELSE LET trimmed == trim(Head(lines))
             text == parseTextDelta(DropFirst(trimmed, Len(DATA_PREFIX)))
         IN IF trimmed = <<>> THEN anthropicLineTexts(Tail(lines), eventType)
            ELSE IF StartsWith(trimmed, EVENT_PREFIX)
            THEN anthropicLineTexts(Tail(lines), DropFirst(trimmed, Len(EVENT_PREFIX)))
            ELSE IF StartsWith(trimmed, DATA_PREFIX)
                    /\ eventType = <<"content_block_delta">> /\ text # <<>>
            THEN <<text>> \o anthropicLineTexts(Tail(lines), eventType)
            ELSE anthropicLineTexts(Tail(lines), eventType)

\* an upstream event: its name and, for a text_delta, its text
SseEvents ==
    { [name |-> "content_block_delta", text |-> <<"a">>],
      [name |-> "content_block_delta", text |-> <<"b">>],
      [name |-> "message_start", text |-> <<>>] }

SseEventBytes(e, nl) ==
    EVENT_PREFIX \o <<e.name>> \o nl
    \o DATA_PREFIX \o (IF e.name = "content_block_delta"
                       THEN <<"{t:">> \o e.text \o <<"}">> ELSE <<"{m}">>) \o nl
    \o nl

SseEventSeqs == UNION { [1..n -> SseEvents] : n \in 1..MaxSseEvents }

SseBody(es, nl) == Concat([i \in 1..Len(es) |-> SseEventBytes(es[i], nl)])

AInit ==
    /\ PureIdle
    /\ context = NewContext
    /\ aggregator = <<>>
    /\ frames = <<>>
    /\ evlog = <<>>
    /\ hpc = "start"
    /\ retryCfg = NoRetryCfg
    /\ failedEvent = NoEvent
    /\ attempt = 0
    /\ retryCalls = 0
    /\ retrySuccess = FALSE
    /\ callsAfterSuccess = 0
    /\ branch = "none"
    /\ framesAtRetry = 0
    /\ parser = NewParser(TRUE)
    /\ fed = <<>>
    /\ pevents = <<>>
    /\ stream \in { SseBody(es, nl) : es \in SseEventSeqs, nl \in {LF, CRLF} }
    /\ body = stream
    /\ buffer = <<>>

\* one reader.read() that returns the next n bytes, and the loop over the
\* lines it completes, which starts with eventType = ""
ARead ==
    /\ hpc = "reading"
    /\ body # <<>>
    /\ \E n \in 1..Len(body) :
        LET lines == split(buffer \o SubSeq(body, 1, n))
            texts == anthropicLineTexts(SubSeq(lines, 1, Len(lines) - 1), <<>>)
            q == feed(parser, Concat(texts))
        IN /\ buffer' = lines[Len(lines)]
           /\ body' = DropFirst(body, n)
           /\ parser' = [q EXCEPT !.events = <<>>]
           /\ pevents' = pevents \o q.events
           /\ fed' = fed \o texts
           /\ SetW(handleEvents(CurW, q.events))
           /\ evlog' = evlog \o q.events
    /\ UNCHANGED <<stream, pureVars>>
    /\ UNCHANGED handlerVars

ANext == RStart \/ ARead \/ RDone

AnthropicReadSpec == AInit /\ [][ANext]_vars

(***************************************************************************)
(* Upstream resolution: config.ts loadConfig, upstream.ts                  *)
(* selectUpstreamConfig and RequestContext.parseChannelInfo.  Strings are  *)
(* sequences of characters; an absent optional value is Undefined.         *)
(***************************************************************************)
MaxModelLen == 3
MaxChannels == 2

Undefined == <<"undefined">>

\* the characters of model strings and the model strings of a request
ModelChars == {"c", "m", "+"}
ModelStrings == UNION { [1..n -> ModelChars] : n \in 0..MaxModelLen }

\* CHANNEL_i_NAME / CHANNEL_i_BASE_URL / CHANNEL_i_API_KEY: the i-th channel
\* has its own base URL, and every second one has no API key
ChannelNames == {<<"c">>, <<"m">>, <<"c", "+">>}
ChannelEntry(i, name) ==
    [name |-> name,
     baseUrl |-> <<"channel">> \o [j \in 1..i |-> "i"],
     apiKey |-> IF i % 2 = 1 THEN <<"key">> \o [j \in 1..i |-> "i"] ELSE Undefined]

\* loadChannelConfigs(): the channels in the order of their numbers
loadChannelConfigs ==
    UNION { { [i \in 1..n |-> ChannelEntry(i, names[i])] :
                names \in [1..n -> ChannelNames] } : n \in 0..MaxChannels }

\* loadUpstreamConfigs(): the numbered UPSTREAM_CONFIG_i entries
NumberedEntry(nameModel) ==
    [baseUrl |-> <<"numbered">>, apiKey |-> <<"nkey">>,
     requestModel |-> <<"r">>, nameModel |-> nameModel]
loadUpstreamConfigs ==
    { <<>>, <<NumberedEntry(<<"m">>)>>, <<NumberedEntry(<<"c", "+", "m">>)>>,
      <<NumberedEntry(<<"m">>), NumberedEntry(<<"c", "+", "m">>)>> }

\* the environment variables loadConfig reads
Environments ==
    [channelConfigs : loadChannelConfigs,
     upstreamConfigs : loadUpstreamConfigs,
     UPSTREAM_BASE_URL : {Undefined, <<"legacy">>},
     UPSTREAM_MODEL : {Undefined, <<"o">>},
     PASSTHROUGH_API_KEY : BOOLEAN]

\* loadConfig(): the legacy single upstream is read only when no numbered
\* entry is defined, and then its base URL has a default
loadConfig(env) ==
    LET legacy == env.upstreamConfigs = <<>>
    IN [upstreamConfigs |-> env.upstreamConfigs,
        channelConfigs |-> env.channelConfigs,
        upstreamBaseUrl |->
            IF ~legacy THEN Undefined
            ELSE IF env.UPSTREAM_BASE_URL # Undefined THEN env.UPSTREAM_BASE_URL
            ELSE <<"default">>,
        upstreamApiKey |-> IF legacy THEN <<"lkey">> ELSE Undefined,
        upstreamModelOverride |-> IF legacy THEN env.UPSTREAM_MODEL ELSE Undefined,
        passthroughApiKey |-> env.PASSTHROUGH_API_KEY]

\* String.prototype.indexOf for one character, counted from 1; 0 when absent
indexOf(s, c) ==
    IF \E i \in 1..Len(s) : s[i] = c
    THEN CHOOSE i \in 1..Len(s) : s[i] = c /\ \A j \in 1..(i - 1) : s[j] # c
    ELSE 0

\* Array.prototype.find by channel name: the index of the first channel of
\* that name, 0 when there is none
findChannel(channelConfigs, channelName) ==
    IF \E i \in 1..Len(channelConfigs) : channelConfigs[i].name = channelName
    THEN CHOOSE i \in 1..Len(channelConfigs) :
            /\ channelConfigs[i].name = channelName
            /\ \A j \in 1..(i - 1) : channelConfigs[j].name # channelName
    ELSE 0

\* a parseChannelModel that splits at the last '+'
parseChannelModelLastPlus(clientModel) ==
    LET plusIndex == IF \E i \in 1..Len(clientModel) : clientModel[i] = "+"
                     THEN CHOOSE i \in 1..Len(clientModel) :
                            /\ clientModel[i] = "+"
                            /\ \A j \in (i + 1)..Len(clientModel) : clientModel[j] # "+"
                     ELSE 0
    IN IF plusIndex = 0 THEN [found |-> FALSE]
       ELSE [found |-> TRUE,
             channelName |-> SubSeq(clientModel, 1, plusIndex - 1),
             modelName |-> DropFirst(clientModel, plusIndex)]

\* parseChannelModel(clientModel): split at the first '+'; null without one
parseChannelModel(clientModel) ==
    LET plusIndex == indexOf(clientModel, "+")
    IN IF plusIndex = 0 THEN [found |-> FALSE]
       ELSE [found |-> TRUE,
             channelName |-> SubSeq(clientModel, 1, plusIndex - 1),
             modelName |-> DropFirst(clientModel, plusIndex)]

\* selectUpstreamConfig(config, clientModel): channel, then the numbered
\* entries, then the legacy single upstream, else an Error is thrown
selectUpstreamConfig(config, clientModel) ==
    LET channelModel == parseChannelModel(clientModel)
        channel == IF channelModel.found
                   THEN findChannel(config.channelConfigs, channelModel.channelName)
                   ELSE 0
        matching == { i \in 1..Len(config.upstreamConfigs) :
                        config.upstreamConfigs[i].nameModel = clientModel }
    IN IF channel # 0
       THEN [threw |-> FALSE,
             value |-> [baseUrl |-> config.channelConfigs[channel].baseUrl,
                        apiKey |-> config.channelConfigs[channel].apiKey,
                        requestModel |-> channelModel.modelName,
                        nameModel |-> clientModel]]
       ELSE IF matching # {}
       THEN [threw |-> FALSE,
             value |-> config.upstreamConfigs[
                          CHOOSE i \in matching : \A j \in matching : i <= j]]
       ELSE IF config.upstreamBaseUrl # Undefined
       THEN [threw |-> FALSE,
             value |-> [baseUrl |-> config.upstreamBaseUrl,
                        apiKey |-> config.upstreamApiKey,
                        requestModel |->
                            IF config.upstreamModelOverride # Undefined
                            THEN config.upstreamModelOverride ELSE clientModel,
                        nameModel |-> clientModel]]
       ELSE [threw |-> TRUE, value |-> NoCall]

\* RequestContext.parseChannelInfo(modelName, config, clientApiKey)
parseChannelInfo(modelName, config, clientApiKey) ==
    LET plusIndex == indexOf(modelName, "+")
        channelName == SubSeq(modelName, 1, plusIndex - 1)
        actualModel == DropFirst(modelName, plusIndex)
        channel == IF plusIndex # 0
                   THEN findChannel(config.channelConfigs, channelName)
                   ELSE 0
        chosen ==
            IF plusIndex # 0
            THEN IF channel # 0
                 THEN [baseUrl |-> config.channelConfigs[channel].baseUrl,
                       apiKey |-> config.channelConfigs[channel].apiKey,
                       model |-> actualModel]
                 ELSE [baseUrl |-> config.upstreamBaseUrl,
                       apiKey |-> config.upstreamApiKey,
                       model |-> modelName]
            ELSE IF Len(config.channelConfigs) > 0
                 THEN [baseUrl |-> config.channelConfigs[1].baseUrl,
                       apiKey |-> config.channelConfigs[1].apiKey,
                       model |-> modelName]
                 ELSE [baseUrl |-> config.upstreamBaseUrl,
                       apiKey |-> config.upstreamApiKey,
                       model |-> IF config.upstreamModelOverride # Undefined
                                 THEN config.upstreamModelOverride ELSE modelName]
    IN [threw |-> FALSE,
        value |-> [chosen EXCEPT !.apiKey =
                      IF config.passthroughApiKey /\ clientApiKey # Undefined
                      THEN clientApiKey ELSE @]]

\* the key a client sends with its request, if any
ClientApiKeys == {Undefined, <<"client">>}

ResolveInit ==
    /\ WriterIdle
    /\ ParserIdle
    /\ ReadIdle
    /\ returned = NoCall
    /\ \E env \in Environments, model \in ModelStrings, clientApiKey \in ClientApiKeys :
        given = [fn |-> "resolve", config |-> loadConfig(env), model |-> model,
                 clientApiKey |-> clientApiKey]

\* const upstreamConfig = selectUpstreamConfig(config, clientModel)
SelectUpstream ==
    /\ given.fn = "resolve"
    /\ returned' = [fn |-> "selectUpstreamConfig",
                    out |-> selectUpstreamConfig(given.config, given.model)]
    /\ UNCHANGED given
    /\ UNCHANGED <<writerVars, handlerVars, parserVars, readVars>>

\* const upstreamConfig = RequestContext.parseChannelInfo(actualModelName,
\*                                                        config, clientApiKey)
ParseChannel ==
    /\ given.fn = "resolve"
    /\ returned' = [fn |-> "parseChannelInfo",
                    out |-> parseChannelInfo(given.model, given.config,
                                             given.clientApiKey)]
    /\ UNCHANGED given
    /\ UNCHANGED <<writerVars, handlerVars, parserVars, readVars>>

ResolveNext == SelectUpstream \/ ParseChannel

ResolveSpec == ResolveInit /\ [][ResolveNext]_vars

(***************************************************************************)
(* Observations on the frames sent                                         *)
(***************************************************************************)
IsStart(fr) == fr.event = "content_block_start"
IsDelta(fr) == fr.event = "content_block_delta"
IsStop(fr) == fr.event = "content_block_stop"
IsTextDelta(fr) == IsDelta(fr) /\ fr.kind = "text_delta"
IsThinkingDelta(fr) == IsDelta(fr) /\ fr.kind = "thinking_delta"
IsToolStart(fr) == IsStart(fr) /\ fr.kind = "tool_use"
IsTextStart(fr) == IsStart(fr) /\ fr.kind = "text"
IsThinkingStart(fr) == IsStart(fr) /\ fr.kind = "thinking"
IsTextEv(e) == e.type = "text"
IsThinkingEv(e) == e.type = "thinking"
IsToolCallEv(e) == e.type = "tool_call"
IsEndEv(e) == e.type = "end"

Prefix(s, n) == SubSeq(s, 1, n)

\* the positions of s, in order, whose element satisfies Test
Positions(s, Test(_)) ==
    LET P == { i \in 1..Len(s) : Test(s[i]) }
    IN [k \in 1..Cardinality(P) |->
           CHOOSE i \in P : Cardinality({ j \in P : j < i }) = k - 1]

\* the texts carried by the elements of s that satisfy Test, concatenated
DataOf(fs, Test(_)) ==
    LET sel == SelectSeq(fs, Test)
    IN Concat([k \in 1..Len(sel) |-> sel[k].data])

ContentOf(es, Test(_)) ==
    LET sel == SelectSeq(es, Test)
    IN Concat([k \in 1..Len(sel) |-> sel[k].content])

Count(s, Test(_)) == Len(SelectSeq(s, Test))

\* the frames before position i that stop a text block
TextStopsBefore(i) ==
    Cardinality({ j \in 1..(i - 1) :
        /\ IsStop(frames[j])
        /\ \E k \in 1..(j - 1) : IsTextStart(frames[k]) /\ frames[k].index = frames[j].index })

TextStartsBefore(i) == Cardinality({ j \in 1..(i - 1) : IsTextStart(frames[j]) })

(***************************************************************************)
(* C1: the index values of the successive content_block_start frames of a  *)
(* response are exactly 0, 1, 2, ...; no index is used by two of them.     *)
(***************************************************************************)
C1_BlockIndicesCountUp ==
    LET starts == SelectSeq(frames, IsStart)
    IN /\ \A k \in 1..Len(starts) : starts[k].index = k - 1
       /\ \A j, k \in 1..Len(starts) : j # k => starts[j].index # starts[k].index

C1_Witness ==
    /\ Count(frames, IsTextStart) >= 1
    /\ Count(frames, IsThinkingStart) >= 1
    /\ Count(frames, IsToolStart) >= 1
    /\ Count(frames, IsStart) >= 4

(***************************************************************************)
(* C2: no content_block_delta or content_block_stop frame carries an index *)
(* that no earlier content_block_start frame of the response opened.       *)
(***************************************************************************)
C2_DeltaAndStopOnlyForOpened ==
    \A i \in 1..Len(frames) :
        (IsDelta(frames[i]) \/ IsStop(frames[i])) =>
            \E j \in 1..(i - 1) : IsStart(frames[j]) /\ frames[j].index = frames[i].index

C2_Witness ==
    /\ \E i \in 1..Len(frames) : IsStop(frames[i]) /\ frames[i].index = 2
    /\ \E i \in 1..Len(frames) : IsDelta(frames[i]) /\ frames[i].kind = "signature_delta"
    /\ \E i \in 1..Len(frames) : IsTextDelta(frames[i])

(***************************************************************************)
(* C3: when the events handed over end with End (the one End of the        *)
(* sequence), every content block opened has exactly one                   *)
(* content_block_stop with its index, sent after its start and before      *)
(* message_stop.                                                           *)
(***************************************************************************)
EndsWithTheEnd ==
    /\ evlog # <<>>
    /\ IsEndEv(evlog[Len(evlog)])
    /\ Count(evlog, IsEndEv) = 1

C4_StopReasonIffToolUse ==
    \A i \in 1..Len(frames) : frames[i].event = "message_delta" =>
        LET tool == \E j \in 1..(i - 1) : IsToolStart(frames[j])
        IN /\ (frames[i].kind = "tool_use") <=> tool
           /\ ~tool => frames[i].kind = "end_turn"

C4_Witness ==
    /\ \E i \in 1..Len(frames) : frames[i].event = "message_delta" /\ frames[i].kind = "tool_use"
    /\ Count(frames, IsTextDelta) >= 1

C4_WitnessEndTurn ==
    \E i \in 1..Len(frames) : frames[i].event = "message_delta" /\ frames[i].kind = "end_turn"

(***************************************************************************)
(* C5: the first frame is message_start and ping follows it at once; no    *)
(* content_block frame precedes message_start; message_delta and           *)
(* message_stop are sent at most once; whatever events are handed to       *)
(* handleEvents, no frame follows message_stop.                            *)
(***************************************************************************)
IsMessageDelta(fr) == fr.event = "message_delta"
IsMessageStop(fr) == fr.event = "message_stop"

C5_FramingOrder ==
    /\ Len(frames) >= 1 => frames[1].event = "message_start"
    /\ Len(frames) >= 2 => frames[2].event = "ping"
    /\ Count(frames, IsMessageDelta) <= 1
    /\ Count(frames, IsMessageStop) <= 1

C5_NothingAfterMessageStop ==
    \A i \in 1..Len(frames) : IsMessageStop(frames[i]) => i = Len(frames)

C5_Claim == C5_FramingOrder /\ C5_NothingAfterMessageStop

(***************************************************************************)
(* C6: the text_delta frames carry the text of the Text events in arrival  *)
(* order, the thinking_delta frames the Thinking content in arrival order, *)
(* and when a tool call's content_block_start is sent all text of the Text *)
(* events before that ToolCall event has been sent and its block closed.   *)
(***************************************************************************)
C6_TextInOrder ==
    DataOf(frames, IsTextDelta) \o aggregator = ContentOf(evlog, IsTextEv)

C6_ThinkingInOrder ==
    DataOf(frames, IsThinkingDelta) = ContentOf(evlog, IsThinkingEv)

C6_TextBeforeToolCall ==
    LET calls == Positions(evlog, IsToolCallEv)
        starts == Positions(frames, IsToolStart)
    IN /\ Len(calls) = Len(starts)
       /\ \A k \in 1..Len(calls) :
            /\ DataOf(Prefix(frames, starts[k] - 1), IsTextDelta)
                 = ContentOf(Prefix(evlog, calls[k] - 1), IsTextEv)
            /\ TextStartsBefore(starts[k]) = TextStopsBefore(starts[k])

RetryFrames == SubSeq(frames, framesAtRetry + 1, Len(frames))

ToolUseByRetry == Count(RetryFrames, IsToolStart)

IsSuffix(t, s) == Len(t) <= Len(s) /\ SubSeq(s, Len(s) - Len(t) + 1, Len(s)) = t

Chars(s) == { s[i] : i \in 1..Len(s) }

FailedChars == UNION { Chars(c) : c \in FailedContents }

\* no text sent or buffered holds a character of the failed tool-call text
NoFailedText ==
    /\ Chars(aggregator) \cap FailedChars = {}
    /\ \A i \in 1..Len(frames) :
         IsTextDelta(frames[i]) => Chars(frames[i].data) \cap FailedChars = {}

\* the failed text has gone out as the last text of a text block
FailedTextSent ==
    /\ aggregator = <<>>
    /\ IsSuffix(failedEvent.content, DataOf(frames, IsTextDelta))
    /\ \E i \in (framesAtRetry + 1)..Len(frames) :
         /\ IsTextDelta(frames[i])
         /\ IsSuffix(failedEvent.content, frames[i].data)
         /\ \E j \in 1..(i - 1) : IsTextStart(frames[j]) /\ frames[j].index = frames[i].index

RetryExhausted == hpc = "done" /\ branch = "retry" /\ ~retrySuccess

(***************************************************************************)
(* C7: in the retry branch, a retry attempt that returns a well-formed     *)
(* tool call makes exactly one tool_use block and the failed text is not   *)
(* sent as text; when every attempt fails no tool_use block is made and    *)
(* the failed text is sent to the client in a text block.                  *)
(***************************************************************************)
C7_RetrySafety ==
    /\ retrySuccess => ToolUseByRetry = 1 /\ NoFailedText
    /\ (branch = "retry" /\ ~retrySuccess) => ToolUseByRetry = 0

C7_WitnessSuccess ==
    hpc = "done" /\ retrySuccess /\ retryCalls = 2 /\ ToolUseByRetry = 1

(***************************************************************************)
(* C8: after the retry branch has run the response is terminated: no block *)
(* is left open, a message_delta with stop_reason "tool_use" (a retry      *)
(* succeeded) or "end_turn" (retries exhausted) is sent, then message_stop.*)
(***************************************************************************)
AllBlocksClosed ==
    \A i \in 1..Len(frames) : IsStart(frames[i]) =>
        \E j \in (i + 1)..Len(frames) : IsStop(frames[j]) /\ frames[j].index = frames[i].index

C8_RetryBranchTerminated ==
    (hpc = "done" /\ branch = "retry") =>
        /\ AllBlocksClosed
        /\ Len(frames) >= 2
        /\ frames[Len(frames)].event = "message_stop"
        /\ frames[Len(frames) - 1].event = "message_delta"
        /\ frames[Len(frames) - 1].kind = (IF retrySuccess THEN "tool_use" ELSE "end_turn")

C9_Bound ==
    /\ retryCalls <= (IF retryCfg.maxRetries = 0 THEN 1 ELSE retryCfg.maxRetries)
    /\ callsAfterSuccess = 0
    /\ retrySuccess => hpc \in {"afterLoop", "done"}

C9_WitnessFull == hpc = "done" /\ retryCalls = MaxRetriesBound /\ retrySuccess

(***************************************************************************)
(* C10: the text the parser lets through                                   *)
(***************************************************************************)
INVOKE_TAG == <<"<", "i", "n", "v", "o", "k", "e">>

\* position of the first occurrence of m in s, 0 when there is none
IndexOf(s, m) ==
    LET I == { i \in 1..(Len(s) - Len(m) + 1) : SubSeq(s, i, i + Len(m) - 1) = m }
    IN IF I = {} THEN 0 ELSE CHOOSE i \in I : \A k \in I : i <= k

TextContent(evs) ==
    LET sel == SelectSeq(evs, LAMBDA e : e.type = "text")
    IN Concat([i \in 1..Len(sel) |-> sel[i].content])

FedText == Concat(fed)

\* m occurs in s at position i
OccursAt(s, i, m) == i + Len(m) - 1 <= Len(s) /\ SubSeq(s, i, i + Len(m) - 1) = m

\* position of the first occurrence of m in s at or after position i, 0 when
\* there is none
IndexFrom(s, i, m) ==
    LET I == { k \in i..(Len(s) - Len(m) + 1) : OccursAt(s, k, m) }
    IN IF I = {} THEN 0 ELSE CHOOSE k \in I : \A n \in I : k <= n

\* a part to remove begins at position i: a <thinking> span, a TC_START, or
\* an <invoke that comes after a TC_START and has its </invoke>
RemovedAt(s, i, hasDelimiter) ==
    \/ OccursAt(s, i, THINKING_OPEN)
    \/ hasDelimiter /\ OccursAt(s, i, TC_START)
    \/ /\ hasDelimiter
       /\ OccursAt(s, i, INVOKE_TAG)
       /\ IndexFrom(s, 1, TC_START) \in 1..(i - 1)
       /\ IndexFrom(s, i, INVOKE_CLOSE) > 0

\* the position after the part to remove that begins at position i; a
\* <thinking> span that is never closed runs to the end
RemovedEnd(s, i, hasDelimiter) ==
    IF OccursAt(s, i, THINKING_OPEN)
    THEN IF IndexFrom(s, i, THINKING_CLOSE) = 0 THEN Len(s) + 1
         ELSE IndexFrom(s, i, THINKING_CLOSE) + Len(THINKING_CLOSE)
    ELSE IF OccursAt(s, i, TC_START) THEN i + Len(TC_START)
    ELSE IndexFrom(s, i, INVOKE_CLOSE) + Len(INVOKE_CLOSE)

\* the upstream text from position i on with each such part removed, and
\* nothing else
RECURSIVE RemoveFrom(_, _, _)
RemoveFrom(s, i, hasDelimiter) ==
    LET I == { k \in i..Len(s) : RemovedAt(s, k, hasDelimiter) }
        first == CHOOSE k \in I : \A n \in I : k <= n
    IN IF I = {} THEN SubSeq(s, i, Len(s))
       ELSE SubSeq(s, i, first - 1)
            \o RemoveFrom(s, RemovedEnd(s, first, hasDelimiter), hasDelimiter)

RemoveParts(s, hasDelimiter) == RemoveFrom(s, 1, hasDelimiter)

\* the upstream text before the first TC_START outside a <thinking> span, with
\* each <thinking> span removed; a span never closed runs to the end
RECURSIVE VisibleText(_, _)
VisibleText(s, hasDelimiter) ==
    LET i == IndexOf(s, THINKING_OPEN)
        j == IF hasDelimiter THEN IndexOf(s, TC_START) ELSE 0
    IN IF j > 0 /\ (i = 0 \/ j < i) THEN SubSeq(s, 1, j - 1)
       ELSE IF i = 0 THEN s
       ELSE LET rest == DropFirst(s, i + Len(THINKING_OPEN) - 1)
                k == IndexOf(rest, THINKING_CLOSE)
            IN SubSeq(s, 1, i - 1)
               \o (IF k = 0 THEN <<>>
                   ELSE VisibleText(DropFirst(rest, k + Len(THINKING_CLOSE) - 1),
                                    hasDelimiter))

C10_WitnessThinking ==
    /\ parser.finished
    /\ \E i \in 1..Len(pevents) : pevents[i].type = "thinking"
    /\ IndexOf(FedText, THINKING_CLOSE) > 0
    /\ TextContent(pevents) # <<>>
    /\ Len(SelectSeq(pevents, LAMBDA e : e.type = "text")) >= 2

(***************************************************************************)
(* C11: no tool event without the trigger signal                           *)
(***************************************************************************)
IsToolEvent(e) == e.type \in {"tool_call", "tool_call_failed"}

\* C11: a tool_call or tool_call_failed event is emitted only if a delimiter is
\* configured and TC_START has occurred in the text fed so far; otherwise the
\* parser produces text and thinking events (and the end event) only.
C11_ToolEventsNeedTrigger ==
    /\ (\E i \in 1..Len(pevents) : IsToolEvent(pevents[i]))
          => parser.hasDelimiter /\ IndexOf(FedText, TC_START) > 0
    /\ (~parser.hasDelimiter \/ IndexOf(FedText, TC_START) = 0)
          => \A i \in 1..Len(pevents) : pevents[i].type \in {"text", "thinking", "end"}

\* an <invoke> block fed without the trigger signal, delimiter configured
C11_Witness ==
    /\ parser.finished
    /\ parser.hasDelimiter
    /\ IndexOf(FedText, InvokeBlock) > 0
    /\ IndexOf(FedText, TC_START) = 0
    /\ TextContent(pevents) # <<>>

C11_WitnessToolCall ==
    /\ parser.hasDelimiter
    /\ \E i \in 1..Len(pevents) : pevents[i].type = "tool_call"

(***************************************************************************)
(* C12: a well-formed tool call                                            *)
(***************************************************************************)
MaxParams == 2

\* the lists of at most MaxParams parameters with different names
ParamLists ==
    UNION { { ps \in [1..n -> CallParamNames \X CallValues] :
                \A i, j \in 1..n : i # j => ps[i][1] # ps[j][1] } : n \in 0..MaxParams }

ParamText(pv) == PARAM_OPEN \o pv[1] \o ATTR_CLOSE \o pv[2].src \o PARAM_CLOSE

\* <text> TC_START <whitespace> <invoke name="N"> children </invoke>
CallText(text, space, n, ps) ==
    text \o TC_START \o space \o INVOKE_OPEN \o n \o ATTR_CLOSE
    \o Concat([i \in 1..Len(ps) |-> ParamText(ps[i])]) \o INVOKE_CLOSE

ExpectedArguments(ps) == [i \in 1..Len(ps) |-> <<ps[i][1], ps[i][2].val>>]

EventsBeforeEnd(evs) == SelectSeq(evs, LAMBDA e : e.type # "end")

\* C12: for text TC_START whitespace <invoke name="N"> children </invoke>, the
\* parser emits the preceding text as Text events and then exactly one
\* ToolCall with name N whose arguments map each P to the JSON-parsed V, or to
\* the raw V when V is not JSON.
C12_WellFormedCallParsed ==
    parser.finished /\ fed # <<>> /\ fed[Len(fed)] = INVOKE_CLOSE =>
        LET sent == FedText
            evs == EventsBeforeEnd(pevents)
        IN \A text \in CallTexts \cup {<<>>}, space \in CallSpaces \cup {<<>>},
              n \in CallNames, ps \in ParamLists :
               sent = CallText(text, space, n, ps) =>
                   /\ Len(evs) >= 1
                   /\ evs[Len(evs)] = ToolCallEv(n, ExpectedArguments(ps))
                   /\ \A i \in 1..(Len(evs) - 1) : evs[i].type = "text"
                   /\ TextContent(pevents) = text

\* two parameters, one JSON and one that JSON.parse rejects, text before
C12_Witness ==
    /\ parser.finished
    /\ \E n \in CallNames, ps \in ParamLists :
        /\ Len(ps) = 2
        /\ ps[1][2].src # ps[1][2].val
        /\ ps[2][2].src = <<"\"", "q">>
        /\ FedText = CallText(<<"a", "<">>, <<" ", "\n">>, n, ps)
    /\ \E i \in 1..Len(pevents) : pevents[i].type = "tool_call"

(***************************************************************************)
(* C13: the upstream text ends inside a tool call                          *)
(***************************************************************************)
CountType(evs, t) == Len(SelectSeq(evs, LAMBDA e : e.type = t))

ToolStates ==
    { "TOOL_WAIT_INVOKE", "TOOL_NAME", "TOOL_BODY", "TOOL_PARAM_NAME", "TOOL_PARAM_VALUE" }

\* C13: when the trigger signal was matched and finish() comes before any
\* </invoke>, the parser emits exactly one ToolCallFailed and no ToolCall,
\* whatever state it was in; the failure holds the raw text from TC_START on
\* and the text emitted before it.
C13_UnclosedCallFailsOnce ==
    LET sent == FedText
        t == IndexOf(sent, TC_START)
    IN parser.finished /\ t > 0 /\ IndexOf(sent, INVOKE_CLOSE) = 0 =>
          /\ CountType(pevents, "tool_call_failed") = 1
          /\ CountType(pevents, "tool_call") = 0
          /\ \A i \in 1..Len(pevents) :
                pevents[i].type = "tool_call_failed" =>
                    /\ pevents[i].content = SubSeq(sent, t, Len(sent))
                    /\ pevents[i].priorText = SubSeq(sent, 1, t - 1)

\* finish() inside a parameter value
C13_Witness ==
    /\ parser.finished
    /\ parser.state = "TOOL_PARAM_VALUE"
    /\ CountType(pevents, "tool_call_failed") = 1

\* finish() reached in every state of the invoke/parameter sub-machine
C13_WitnessState(st) == parser.finished /\ parser.state = st

(***************************************************************************)
(* C14: the characters fed do not depend on how the body is cut into reads *)
(***************************************************************************)
\* the body with LF line endings
ToLF(s) == SelectSeq(s, LAMBDA b : b # "\r")

\* the characters fed to the parser when the body arrives in a single read
FedInOneRead(s) ==
    LET lines == split(s)
    IN Concat(lineContents(SubSeq(lines, 1, Len(lines) - 1)))

\* C14: for handleOpenAIStream the characters fed to the parser are the same
\* for every partition of the upstream bytes into reads, and the same for LF
\* and CRLF line endings.
C14_FedSameForEveryPartition == hpc = "done" => FedText = FedInOneRead(ToLF(stream))

\* the same for bodies in which nothing follows the [DONE] line
NothingAfterDone(s) ==
    LET lines == split(s)
    IN \A i \in 1..Len(lines) :
          trim(lines[i]) = DATA_PREFIX \o DONE_MARKER =>
             \A j \in (i + 1)..Len(lines) : trim(lines[j]) = <<>>

C14_FedSameWhenDoneIsLast ==
    hpc = "done" /\ NothingAfterDone(stream) => FedText = FedInOneRead(ToLF(stream))

\* the trigger signal came in two data lines with CRLF endings and was fed whole
C14_WitnessSplitTrigger ==
    /\ hpc = "done"
    /\ IndexOf(stream, CRLF) > 0
    /\ FedText = TC_START
    /\ CountType(pevents, "tool_call_failed") = 1

(***************************************************************************)
(* C15: handleAnthropicStream pairs an event line with its data line       *)
(***************************************************************************)
\* the texts of the text_delta events, in order
TextDeltas(es) ==
    Concat([i \in 1..Len(es) |->
               IF es[i].name = "content_block_delta" THEN es[i].text ELSE <<>>])

\* C15: for handleAnthropicStream the text of every upstream
\* content_block_delta event with a text_delta is fed to the parser, in order,
\* however the upstream bytes are cut into reads.
C15_EveryTextDeltaFed ==
    hpc = "done" =>
        \A es \in SseEventSeqs, nl \in {LF, CRLF} :
            stream = SseBody(es, nl) => FedText = TextDeltas(es)

\* the same when each read ends at the end of an event
C15_WitnessWholeEvents ==
    /\ hpc = "done"
    /\ Len(fed) >= 2
    /\ \E es \in SseEventSeqs, nl \in {LF, CRLF} :
          stream = SseBody(es, nl) /\ FedText = TextDeltas(es)

(***************************************************************************)
(* C16: a failed tool call without retry                                   *)
(***************************************************************************)
\* C16: when the stream ends with a ToolCallFailed event and the retry branch
\* is not taken, the failed raw content reaches the client as text_delta
\* frames of a text block before message_stop.
C16_FailedDegradedToText ==
    hpc = "done" /\ branch = "plain" /\ failedEvent # NoEvent =>
        /\ IsSuffix(failedEvent.content, DataOf(frames, IsTextDelta))
        /\ \E i \in 1..Len(frames) : IsMessageStop(frames[i])

\* what does hold: the response is closed and none of the failed text is sent
C16_FailedTextDropped ==
    hpc = "done" /\ branch = "plain" /\ failedEvent # NoEvent =>
        /\ NoFailedText
        /\ IsMessageStop(frames[Len(frames)])

(***************************************************************************)
(* C17: a read error and the retry loop                                    *)
(***************************************************************************)
IsErrorFrame(fr) == fr.event = "error"

ReadFailed == \E i \in 1..Len(frames) : IsErrorFrame(frames[i])

\* C17: after a failed read of the upstream body (the error frame is sent) the
\* handler never starts the tool-call retry loop.
C17_NoRetryAfterReadError == ReadFailed => branch # "retry" /\ retryCalls = 0

(***************************************************************************)
(* C18: the client cancels while the upstream body is being read           *)
(***************************************************************************)
\* the position in frames of the error frame that reports the abort, 0 when
\* the request was not cancelled
CancelAt ==
    LET P == { i \in 1..Len(frames) : IsErrorFrame(frames[i]) /\ frames[i].data = AbortError }
    IN IF P = {} THEN 0 ELSE CHOOSE i \in P : TRUE

\* C18: after the client cancels the handler sends no further frame (no
\* content_block_stop, message_delta or message_stop for open blocks) and
\* makes no retry call.  The error frame that reports the abort is let pass.
C18_NothingAfterCancel ==
    CancelAt > 0 => Len(frames) = CancelAt /\ retryCalls = 0 /\ branch # "retry"

\* the retry part alone
C18_NoRetryAfterCancel == CancelAt > 0 => retryCalls = 0

\* the frames part alone
C18_NoFramesAfterCancel == CancelAt > 0 => Len(frames) = CancelAt

(***************************************************************************)
(* Observations on a resolution                                            *)
(***************************************************************************)
Resolved == returned.fn \in {"selectUpstreamConfig", "parseChannelInfo"}

\* the upstream model of the configuration returned
UpstreamModel ==
    IF returned.fn = "selectUpstreamConfig"
    THEN returned.out.value.requestModel
    ELSE returned.out.value.model

Channels == given.config.channelConfigs

\* the model string is the name of channel i, a '+', and a string X
NamesChannel(i) == StartsWith(given.model, Channels[i].name \o <<"+">>)
AfterChannel(i) == DropFirst(given.model, Len(Channels[i].name) + 1)

HasPlus(s) == \E k \in 1..Len(s) : s[k] = "+"
FirstOfItsName(i) == \A j \in 1..(i - 1) : Channels[j].name # Channels[i].name

\* the client's key replaces the resolved one: parseChannelInfo with
\* passthroughApiKey set and a key sent by the client
KeyPassedThrough ==
    /\ returned.fn = "parseChannelInfo"
    /\ given.config.passthroughApiKey
    /\ given.clientApiKey # Undefined

YieldsChannel(i, apiKey) ==
    /\ ~returned.out.threw
    /\ returned.out.value.baseUrl = Channels[i].baseUrl
    /\ returned.out.value.apiKey = apiKey
    /\ UpstreamModel = AfterChannel(i)

(***************************************************************************)
(* C19: for every configured channel named ch and every string X,          *)
(* resolving "ch+X" yields that channel's baseUrl and apiKey and the       *)
(* upstream model X, whatever the numbered and legacy configuration is.    *)
(* As stated, for every channel and every resolution:                      *)
(***************************************************************************)
C19_EveryChannelResolved ==
    Resolved =>
        \A i \in 1..Len(Channels) :
            NamesChannel(i) => YieldsChannel(i, Channels[i].apiKey)

\* C19 as the program has it: the channel is the first one of its name, its
\* name has no '+', and the key is the client's when it is passed through
C19_ChannelResolved ==
    Resolved =>
        \A i \in 1..Len(Channels) :
            (NamesChannel(i) /\ FirstOfItsName(i) /\ ~HasPlus(Channels[i].name)) =>
                YieldsChannel(i, IF KeyPassedThrough THEN given.clientApiKey
                                 ELSE Channels[i].apiKey)

\* "c+X" resolved with channel c configured, X holding a '+' itself, and a
\* numbered entry configured next to the channel
C19_Witness ==
    /\ Resolved
    /\ given.config.upstreamConfigs # <<>>
    /\ \E i \in 1..Len(Channels) :
        /\ NamesChannel(i) /\ FirstOfItsName(i) /\ ~HasPlus(Channels[i].name)
        /\ HasPlus(AfterChannel(i))
        /\ YieldsChannel(i, Channels[i].apiKey)

\* the three cases the statement misses, each reached
C19_WitnessPassthrough ==
    /\ KeyPassedThrough
    /\ \E i \in 1..Len(Channels) :
        /\ NamesChannel(i) /\ FirstOfItsName(i) /\ ~HasPlus(Channels[i].name)
        /\ Channels[i].apiKey # given.clientApiKey
        /\ YieldsChannel(i, given.clientApiKey)
C19_WitnessSecondOfName ==
    /\ returned.fn = "selectUpstreamConfig"
    /\ \E i \in 1..Len(Channels) :
        /\ NamesChannel(i) /\ ~FirstOfItsName(i)
        /\ ~YieldsChannel(i, Channels[i].apiKey)
C19_WitnessPlusInName ==
    /\ returned.fn = "selectUpstreamConfig"
    /\ \E i \in 1..Len(Channels) :
        /\ NamesChannel(i) /\ FirstOfItsName(i) /\ HasPlus(Channels[i].name)
        /\ ~YieldsChannel(i, Channels[i].apiKey)

(***************************************************************************)
(* C20: a model string that matches no channel is resolved by the numbered *)
(* entries first (the entry whose nameModel is the model string is         *)
(* returned) and only otherwise by the legacy single upstream, with the    *)
(* upstream model upstreamModelOverride if set, else the model string.     *)
(***************************************************************************)
MatchesNoChannel ==
    LET plusIndex == indexOf(given.model, "+")
    IN \/ plusIndex = 0
       \/ \A i \in 1..Len(Channels) :
            Channels[i].name # SubSeq(given.model, 1, plusIndex - 1)

Numbered == given.config.upstreamConfigs
NumberedMatches == { j \in 1..Len(Numbered) : Numbered[j].nameModel = given.model }
LegacyConfigured == given.config.upstreamBaseUrl # Undefined

MultiThenLegacy ==
    IF NumberedMatches # {}
    THEN /\ ~returned.out.threw
         /\ \E j \in NumberedMatches :
              /\ returned.out.value.baseUrl = Numbered[j].baseUrl
              /\ UpstreamModel = Numbered[j].requestModel
    ELSE LegacyConfigured =>
         /\ ~returned.out.threw
         /\ returned.out.value.baseUrl = given.config.upstreamBaseUrl
         /\ UpstreamModel = IF given.config.upstreamModelOverride # Undefined
                            THEN given.config.upstreamModelOverride
                            ELSE given.model

C20_MultiThenLegacy == (Resolved /\ MatchesNoChannel) => MultiThenLegacy

\* selectUpstreamConfig alone resolves in that order
C20_SelectUpstreamConfigOrder ==
    (returned.fn = "selectUpstreamConfig" /\ MatchesNoChannel) => MultiThenLegacy

\* parseChannelInfo reached with a numbered entry named by the model string,
\* and with a plain model string while a channel is configured
C20_WitnessNumberedIgnored ==
    /\ returned.fn = "parseChannelInfo"
    /\ MatchesNoChannel
    /\ NumberedMatches # {}
    /\ returned.out.value.baseUrl = Undefined
C20_WitnessFirstChannelUsed ==
    /\ returned.fn = "parseChannelInfo"
    /\ MatchesNoChannel
    /\ NumberedMatches = {}
    /\ LegacyConfigured
    /\ Len(Channels) > 0
    /\ returned.out.value.baseUrl = Channels[1].baseUrl
C20_WitnessOverrideDropped ==
    /\ returned.fn = "parseChannelInfo"
    /\ MatchesNoChannel
    /\ HasPlus(given.model)
    /\ given.config.upstreamModelOverride # Undefined
    /\ UpstreamModel = given.model

(***************************************************************************)
(* C21: upstream resolution fails with a configuration error, returning no *)
(* UpstreamConfig, whenever the model string matches no channel and no     *)
(* numbered entry and no legacy upstream is configured; it never returns a *)
(* configuration whose baseUrl is undefined.                               *)
(***************************************************************************)
NothingMatches == MatchesNoChannel /\ NumberedMatches = {} /\ ~LegacyConfigured

C21_NoMatchIsConfigError ==
    Resolved =>
        /\ NothingMatches => returned.out.threw
        /\ ~returned.out.threw => returned.out.value.baseUrl # Undefined

\* selectUpstreamConfig alone fails so
C21_SelectUpstreamConfigThrows ==
    returned.fn = "selectUpstreamConfig" =>
        /\ NothingMatches <=> returned.out.threw
        /\ ~returned.out.threw => returned.out.value.baseUrl # Undefined

\* parseChannelInfo returning a configuration without a baseUrl where
\* selectUpstreamConfig throws
C21_WitnessUndefinedBaseUrl ==
    /\ returned.fn = "parseChannelInfo"
    /\ NothingMatches
    /\ Channels = <<>>
    /\ ~returned.out.threw
    /\ returned.out.value.baseUrl = Undefined
C21_WitnessThrown ==
    /\ returned.fn = "selectUpstreamConfig"
    /\ NothingMatches
    /\ returned.out.threw

(***************************************************************************)
(* The API key sent upstream: forward.ts forwardRequest and upstream.ts    *)
(* callUpstream                                                            *)
(***************************************************************************)
\* forwardRequest(context, ...): the context's upstreamConfig is the one
\* RequestContext.fromRequest resolved with parseChannelInfo; the key header
\* is set only for a key that is there
ForwardRequest ==
    /\ given.fn = "resolve"
    /\ LET upstreamConfig ==
              parseChannelInfo(given.model, given.config, given.clientApiKey).value
       IN returned' = [fn |-> "forwardRequest",
                       baseUrl |-> upstreamConfig.baseUrl,
                       key |-> upstreamConfig.apiKey]
    /\ UNCHANGED given
    /\ UNCHANGED <<writerVars, handlerVars, parserVars, readVars>>

\* callUpstream(upstreamReq, upstreamConfig, requestTimeoutMs, requestId,
\* clientApiKey) with the configuration selectUpstreamConfig selected and
\* the key of the client's request: apiKey = clientApiKey || upstreamConfig.apiKey
CallUpstream ==
    /\ given.fn = "resolve"
    /\ LET selected == selectUpstreamConfig(given.config, given.model)
       IN /\ ~selected.threw
          /\ returned' = [fn |-> "callUpstream",
                          baseUrl |-> selected.value.baseUrl,
                          key |-> IF given.clientApiKey # Undefined
                                  THEN given.clientApiKey
                                  ELSE selected.value.apiKey]
    /\ UNCHANGED given
    /\ UNCHANGED <<writerVars, handlerVars, parserVars, readVars>>

UpstreamKeyNext == ForwardRequest \/ CallUpstream

UpstreamKeySpec == ResolveInit /\ [][UpstreamKeyNext]_vars

(***************************************************************************)
(* C22: the API key sent to the upstream is the client's key exactly when  *)
(* passthroughApiKey is true and a client key is present; otherwise it is  *)
(* the resolved channel or legacy key, so that with passthrough disabled   *)
(* two requests differing only in the client key send the same key.        *)
(***************************************************************************)
Sent == returned.fn \in {"forwardRequest", "callUpstream"}

\* the key the same request sends when the client gives no key
KeyWithoutClientKey ==
    IF returned.fn = "forwardRequest"
    THEN parseChannelInfo(given.model, given.config, Undefined).value.apiKey
    ELSE selectUpstreamConfig(given.config, given.model).value.apiKey

PassthroughApplies == given.config.passthroughApiKey /\ given.clientApiKey # Undefined

C22_ForwardRequestKey ==
    returned.fn = "forwardRequest" =>
        IF PassthroughApplies
        THEN returned.key = given.clientApiKey
        ELSE returned.key = KeyWithoutClientKey

\* callUpstream sending the client's key with passthrough disabled
C22_WitnessClientKeyWithoutPassthrough ==
    /\ returned.fn = "callUpstream"
    /\ ~given.config.passthroughApiKey
    /\ given.clientApiKey # Undefined
    /\ returned.key = given.clientApiKey
    /\ KeyWithoutClientKey # given.clientApiKey
C22_WitnessPassthrough ==
    /\ returned.fn = "forwardRequest"
    /\ PassthroughApplies
    /\ returned.key = given.clientApiKey
    /\ KeyWithoutClientKey # given.clientApiKey

(***************************************************************************)
(* Prompt injection: signals.ts randomTriggerSignal, prompt_inject.ts      *)
(* enrichClaudeRequest, injectPrompt, PromptInjectionStrategy              *)
(* .prepareRequest and RequestContext.fromRequest.  A request is its       *)
(* tools, system and messages; a tool is its name.                         *)
(***************************************************************************)
MaxTools == 2
MaxMessages == 2

\* randomTriggerSignal(): "<<CALL_" + 4 random alphanumerics + ">>"
TriggerSignals ==
    { TC_START, <<"<", "<", "C", "A", "L", "L", "_", "x", "y", "9", "0", ">", ">">> }

InjectedToolNames == {"a", "b"}
ToolLists == UNION { [1..n -> InjectedToolNames] : n \in 0..MaxTools }
ChatMessages == { [role |-> "user", content |-> <<"u">>],
                  [role |-> "assistant", content |-> <<"v">>] }
MessageLists == UNION { [1..n -> ChatMessages] : n \in 0..MaxMessages }

\* the requests of clients: tools may be absent, and so may system
ClientRequests ==
    [tools : ToolLists \cup {Undefined},
     system : {Undefined, <<"s">>},
     messages : MessageLists]

\* DEFAULT_TEMPLATE with {trigger_signal} and {tools_list} substituted
Template(signal, tools) ==
    <<"instructions:">> \o signal \o <<"<function_list>">> \o tools
        \o <<"</function_list>">>

\* an injectPrompt that injects whether or not there are tools
injectPromptAlways(request, tools, triggerSignal, random) ==
    LET signal == IF triggerSignal # Undefined THEN triggerSignal ELSE random
    IN [messages |-> <<[role |-> "system", content |-> Template(signal, tools)]>>
                        \o request.messages,
        triggerSignal |-> signal]

\* injectPrompt(request, tools, triggerSignal?); random is what
\* randomTriggerSignal() returns when it is called
injectPrompt(request, tools, triggerSignal, random) ==
    IF Len(tools) = 0
    THEN [messages |-> request.messages, triggerSignal |-> Undefined]
    ELSE LET signal == IF triggerSignal # Undefined THEN triggerSignal ELSE random
         IN [messages |-> <<[role |-> "system", content |-> Template(signal, tools)]>>
                             \o request.messages,
             triggerSignal |-> signal]

\* enrichClaudeRequest(request): without tools the request is passed through
\* and there is no delimiter; else the system prompt carries the template and
\* the tools are taken out of the request
enrichClaudeRequest(request, random) ==
    IF request.tools = Undefined \/ request.tools = <<>>
    THEN [request |-> request, delimiter |-> Undefined]
    ELSE [request |-> [request EXCEPT
                          !.system = Template(random, request.tools)
                                        \o (IF @ = Undefined THEN <<>> ELSE @),
                          !.tools = Undefined],
          delimiter |-> random]

\* PromptInjectionStrategy.prepareRequest(request)
prepareRequest(request, random) ==
    IF request.tools = Undefined \/ Len(request.tools) = 0
    THEN [request |-> request, delimiter |-> Undefined]
    ELSE LET result == enrichClaudeRequest(request, random)
         IN [request |-> result.request, delimiter |-> result.delimiter]

\* RequestContext.fromRequest(originalRequest, ...): steps 3 and 6
fromRequest(originalRequest, random) ==
    LET enrichResult == enrichClaudeRequest(originalRequest, random)
    IN [originalRequest |-> originalRequest,
        enrichedRequest |-> enrichResult.request,
        delimiter |-> enrichResult.delimiter]

InjectInit ==
    /\ WriterIdle
    /\ ParserIdle
    /\ ReadIdle
    /\ returned = NoCall
    /\ \E request \in ClientRequests, triggerSignal \in TriggerSignals \cup {Undefined} :
        given = [fn |-> "inject", request |-> request, triggerSignal |-> triggerSignal]

PrepareRequest ==
    /\ given.fn = "inject"
    /\ \E random \in TriggerSignals :
        returned' = [fn |-> "prepareRequest",
                     request |-> prepareRequest(given.request, random).request,
                     delimiter |-> prepareRequest(given.request, random).delimiter]
    /\ UNCHANGED given
    /\ UNCHANGED <<writerVars, handlerVars, parserVars, readVars>>

\* injectPrompt called with the tools of the request
InjectPrompt ==
    /\ given.fn = "inject"
    /\ given.request.tools # Undefined
    /\ \E random \in TriggerSignals :
        LET result == injectPrompt(given.request, given.request.tools,
                                   given.triggerSignal, random)
        IN returned' = [fn |-> "injectPrompt",
                        request |-> [given.request EXCEPT !.messages = result.messages],
                        delimiter |-> result.triggerSignal]
    /\ UNCHANGED given
    /\ UNCHANGED <<writerVars, handlerVars, parserVars, readVars>>

FromRequest ==
    /\ given.fn = "inject"
    /\ \E random \in TriggerSignals :
        LET ctx == fromRequest(given.request, random)
        IN returned' = [fn |-> "fromRequest",
                        request |-> ctx.enrichedRequest,
                        delimiter |-> ctx.delimiter]
    /\ UNCHANGED given
    /\ UNCHANGED <<writerVars, handlerVars, parserVars, readVars>>

InjectNext == PrepareRequest \/ InjectPrompt \/ FromRequest

InjectSpec == InjectInit /\ [][InjectNext]_vars

(***************************************************************************)
(* C23: a delimiter is present if and only if the original request's tools *)
(* list is non-empty; when tools is absent or empty the request is passed  *)
(* through unchanged and no trigger signal is generated.                   *)
(***************************************************************************)
Injected == returned.fn \in {"prepareRequest", "injectPrompt", "fromRequest"}

HasTools == given.request.tools # Undefined /\ Len(given.request.tools) > 0

C23_DelimiterIffTools ==
    Injected =>
        /\ (returned.delimiter # Undefined) <=> HasTools
        /\ ~HasTools => returned.request = given.request

\* a RequestContext built for a request with tools, and one for a request
\* whose tools list is empty
C23_Witness ==
    /\ returned.fn = "fromRequest"
    /\ HasTools
    /\ returned.delimiter \in TriggerSignals
    /\ returned.request # given.request
C23_WitnessEmptyTools ==
    /\ returned.fn = "injectPrompt"
    /\ given.request.tools = <<>>
    /\ given.triggerSignal # Undefined
    /\ returned.delimiter = Undefined
    /\ returned.request = given.request

(***************************************************************************)
(* config.ts parseTokenMultiplier.  A number is a double: NaN, an          *)
(* infinity, or sign * m * 10^e; the rounding to a double is exact for     *)
(* the decimal strings of up to three significant digits.                  *)
(***************************************************************************)
MaxNumLen == 3

NaN == [kind |-> "NaN", neg |-> FALSE, m |-> 0, e |-> 0]
Infinity(neg) == [kind |-> "Infinity", neg |-> neg, m |-> 0, e |-> 0]
Zero(neg) == [kind |-> "finite", neg |-> neg, m |-> 0, e |-> 0]
One == [kind |-> "finite", neg |-> FALSE, m |-> 1, e |-> 0]

DigitChars == {"0", "1", "2", "3", "4", "5", "6", "7", "8", "9"}
DigitValue(c) ==
    CASE c = "0" -> 0 [] c = "1" -> 1 [] c = "2" -> 2 [] c = "3" -> 3 [] c = "4" -> 4
      [] c = "5" -> 5 [] c = "6" -> 6 [] c = "7" -> 7 [] c = "8" -> 8 [] c = "9" -> 9

\* the number of digits a string starts with
DigitRun(s) ==
    LET N == { k \in 0..Len(s) : \A i \in 1..k : s[i] \in DigitChars }
    IN CHOOSE k \in N : \A j \in N : j <= k

RECURSIVE NumberOf(_)
NumberOf(ds) ==
    IF ds = <<>> THEN 0
    ELSE NumberOf(DropLast(ds, 1)) * 10 + DigitValue(ds[Len(ds)])

RECURSIVE CountDigits(_)
CountDigits(m) == IF m < 10 THEN 1 ELSE 1 + CountDigits(m \div 10)

RECURSIVE Pow10(_)
Pow10(n) == IF n = 0 THEN 1 ELSE 10 * Pow10(n - 1)

\* the first three significant digits of m
Lead3(m) ==
    LET nd == CountDigits(m)
    IN IF nd <= 3 THEN m * Pow10(3 - nd) ELSE m \div Pow10(nd - 3)

RECURSIVE Canonical(_, _, _)
Canonical(neg, m, e) ==
    IF m % 10 = 0 THEN Canonical(neg, m \div 10, e + 1)
    ELSE [kind |-> "finite", neg |-> neg, m |-> m, e |-> e]

\* the double nearest to m * 10^e: above 1.797e308 it is an infinity, at or
\* below half of the least denormal 4.94e-324 it is zero
toDouble(neg, m, e) ==
    LET E == e + CountDigits(m) - 1
    IN IF m = 0 THEN Zero(neg)
       ELSE IF E > 308 \/ (E = 308 /\ Lead3(m) >= 180) THEN Infinity(neg)
       ELSE IF E < -324 \/ (E = -324 /\ Lead3(m) <= 247) THEN Zero(neg)
       ELSE Canonical(neg, m, e)

INFINITY == <<"I", "n", "f", "i", "n", "i", "t", "y">>

trimStart(s) ==
    LET I == { i \in 1..Len(s) : s[i] \notin Whitespace }
    IN IF I = {} THEN <<>> ELSE DropFirst(s, (CHOOSE i \in I : \A j \in I : i <= j) - 1)

\* parseFloat(string): the longest prefix that is a decimal literal
parseFloat(s) ==
    LET t == trimStart(s)
        neg == t # <<>> /\ t[1] = "-"
        u == IF t # <<>> /\ t[1] \in {"+", "-"} THEN Tail(t) ELSE t
        k1 == DigitRun(u)
        afterInt == DropFirst(u, k1)
        hasDot == afterInt # <<>> /\ afterInt[1] = "."
        k2 == IF hasDot THEN DigitRun(Tail(afterInt)) ELSE 0
        afterFrac == IF hasDot THEN DropFirst(afterInt, 1 + k2) ELSE afterInt
        hasE == afterFrac # <<>> /\ afterFrac[1] \in {"e", "E"}
        x1 == IF hasE THEN Tail(afterFrac) ELSE <<>>
        eneg == x1 # <<>> /\ x1[1] = "-"
        x2 == IF x1 # <<>> /\ x1[1] \in {"+", "-"} THEN Tail(x1) ELSE x1
        k3 == DigitRun(x2)
        exp == IF k3 > 0
               THEN (IF eneg THEN -1 ELSE 1) * NumberOf(SubSeq(x2, 1, k3))
               ELSE 0
        m == NumberOf(SubSeq(u, 1, k1) \o SubSeq(afterInt, 2, 1 + k2))
    IN IF StartsWith(u, INFINITY) THEN Infinity(neg)
       ELSE IF k1 + k2 = 0 THEN NaN
       ELSE toDouble(neg, m, exp - k2)

\* Number.isFinite(num) and num > 0
isFinite(num) == num.kind = "finite"
GreaterThanZero(num) ==
    /\ num.kind # "NaN"
    /\ ~num.neg
    /\ (num.kind = "Infinity" \/ num.m > 0)

\* num / 100
DividedBy100(num) == toDouble(num.neg, num.m, num.e - 2)

\* parseTokenMultiplier(raw)
parseTokenMultiplier(raw) ==
    LET s0 == trim(raw)
        quoted == \/ StartsWith(s0, <<"\"">>) /\ EndsWith(s0, <<"\"">>)
                  \/ StartsWith(s0, <<"'">>) /\ EndsWith(s0, <<"'">>)
        s1 == IF quoted THEN trim(SubSeq(s0, 2, Len(s0) - 1)) ELSE s0
        percent == parseFloat(DropLast(s1, 1))
        s2 == IF s1 # <<>> /\ s1[Len(s1)] \in {"x", "X"} THEN trim(DropLast(s1, 1))
              ELSE IF s1 # <<>> /\ s1[1] \in {"x", "X"} THEN trim(DropFirst(s1, 1))
              ELSE s1
        num == parseFloat(s2)
    IN IF raw = Undefined \/ raw = <<>> THEN One
       ELSE IF s0 = <<>> THEN One
       ELSE IF EndsWith(s1, <<"%">>) /\ isFinite(percent) /\ GreaterThanZero(percent)
       THEN DividedBy100(percent)
       ELSE IF ~isFinite(num) \/ ~GreaterThanZero(num) THEN One
       ELSE num

\* the values of TOKEN_MULTIPLIER: a number text, possibly with a percent
\* sign or an x, possibly quoted and padded
NumberChars == {"0", "1", "-", ".", "e"}
NumberTexts ==
    UNION { [1..n -> NumberChars] : n \in 0..MaxNumLen }
    \cup { <<"a", "b", "c">>, <<"-", "3">>, <<"N", "a", "N">>, <<"1", ".", "2">>,
           <<"1", "2", "0">>, INFINITY, <<"-">> \o INFINITY,
           <<"1", "e", "-", "3", "2", "3">>, <<"3", "e", "-", "3", "2", "2">>,
           <<"1", "e", "3", "0", "8">>, <<"2", "e", "3", "0", "8">>,
           <<"1", "e", "4", "0", "0">> }
MultiplierTexts ==
    { pad \o quote \o prefix \o text \o suffix \o quote \o pad :
        pad \in {<<>>, <<" ">>}, quote \in {<<>>, <<"'">>, <<"\"">>},
        prefix \in {<<>>, <<"x">>}, text \in NumberTexts,
        suffix \in {<<>>, <<"%">>, <<"x">>, <<"X">>} }

MultiplierInit ==
    /\ WriterIdle
    /\ ParserIdle
    /\ ReadIdle
    /\ returned = NoCall
    /\ \E raw \in MultiplierTexts \cup {Undefined} :
        given = [fn |-> "multiplier", raw |-> raw]

\* const tokenMultiplier = parseTokenMultiplier(Deno.env.get("TOKEN_MULTIPLIER"))
ParseTokenMultiplier ==
    /\ given.fn = "multiplier"
    /\ returned' = [fn |-> "parseTokenMultiplier",
                    value |-> parseTokenMultiplier(given.raw)]
    /\ UNCHANGED given
    /\ UNCHANGED <<writerVars, handlerVars, parserVars, readVars>>

MultiplierNext == ParseTokenMultiplier

MultiplierSpec == MultiplierInit /\ [][MultiplierNext]_vars

(***************************************************************************)
(* C24: parseTokenMultiplier returns 1.0 for every input that is missing,  *)
(* empty, non-numeric, NaN, infinite, zero or negative, so its result is   *)
(* always a finite number greater than 0.                                  *)
(***************************************************************************)
Multiplied == returned.fn = "parseTokenMultiplier"

\* the inputs the statement lists, and an infinite one
RejectedExamples ==
    { Undefined, <<>>, <<"a", "b", "c">>, <<"-", "3">>, <<"0">>, <<"N", "a", "N">>,
      INFINITY, <<"-", "0", ".", "1">>, <<"0", ".", "0">> }

C24_RejectedGiveOne ==
    (Multiplied /\ given.raw \in RejectedExamples) => returned.value = One

C24_AlwaysPositiveFinite ==
    Multiplied =>
        /\ given.raw \in RejectedExamples => returned.value = One
        /\ isFinite(returned.value)
        /\ GreaterThanZero(returned.value)

\* a percentage so small that the division by 100 gives 0
C24_WitnessZeroReturned ==
    /\ Multiplied
    /\ given.raw = <<"1", "e", "-", "3", "2", "3", "%">>
    /\ returned.value = Zero(FALSE)
C24_WitnessRejected ==
    /\ Multiplied
    /\ given.raw = <<"-", "3">>
    /\ returned.value = One
C24_WitnessPercent ==
    /\ Multiplied
    /\ given.raw = <<"'", "1", "2", "0", "%", "'">>
    /\ returned.value = [kind |-> "finite", neg |-> FALSE, m |-> 12, e |-> -1]

(***************************************************************************)
(* Token counting: tiktoken.ts countTokensWithTiktoken and                 *)
(* token_counter.ts estimateTokensFromText.  What the js-tiktoken encoder  *)
(* does for a text is not fixed by this program: it throws or gives a      *)
(* number of tokens, and the number may be any double.                     *)
(***************************************************************************)
MaxTextLen == 5

Integer(n) ==
    IF n = 0 THEN Zero(FALSE)
    ELSE IF n < 0 THEN Canonical(TRUE, 0 - n, 0)
    ELSE Canonical(FALSE, n, 0)

CountedTexts == UNION { [1..n -> {"a", "b"}] : n \in 0..MaxTextLen }
CountedModels == { <<"cl100k_base">>, <<"claude-3">>, <<"gpt-4o">> }

\* getEncoderForModel(model) and encoder.encode(text).length
EncoderOutcomes(text) ==
    { [threw |-> TRUE, length |-> NaN] }
    \cup { [threw |-> FALSE, length |-> l] :
             l \in { Integer(n) : n \in 0..Len(text) }
                   \cup { NaN, Infinity(FALSE), Infinity(TRUE), Integer(-1) } }

\* Math.ceil(text.length / 4)
CharEstimate(text) == Integer(CeilDiv(Len(text), 4))

\* countTokensWithTiktoken(text, model)
countTokensWithTiktoken(text, outcome) ==
    IF text = <<>> THEN Integer(0)
    ELSE IF outcome.threw THEN CharEstimate(text)
    ELSE outcome.length

\* an estimateTokensFromText that returns whatever the tokenizer gave
estimateTokensUnchecked(text, outcome) == countTokensWithTiktoken(text, outcome)

\* estimateTokensFromText(text, model)
estimateTokensFromText(text, outcome) ==
    LET tokens == countTokensWithTiktoken(text, outcome)
    IN IF ~isFinite(tokens) \/ (tokens.neg /\ tokens.m > 0)
       THEN CharEstimate(text)
       ELSE tokens

CountInit ==
    /\ WriterIdle
    /\ ParserIdle
    /\ ReadIdle
    /\ returned = NoCall
    /\ \E text \in CountedTexts, model \in CountedModels :
        given = [fn |-> "count", text |-> text, model |-> model]

EstimateTokens ==
    /\ given.fn = "count"
    /\ \E outcome \in EncoderOutcomes(given.text) :
        returned' = [fn |-> "estimateTokensFromText",
                     outcome |-> outcome,
                     value |-> estimateTokensFromText(given.text, outcome)]
    /\ UNCHANGED given
    /\ UNCHANGED <<writerVars, handlerVars, parserVars, readVars>>

CountNext == EstimateTokens

CountSpec == CountInit /\ [][CountNext]_vars

(***************************************************************************)
(* C25: the token count returned for any text and model is a finite        *)
(* integer >= 0, also when the tokenizer throws or returns NaN, an         *)
(* infinity or a negative number; in those cases it is ceil(len(text)/4).  *)
(***************************************************************************)
Estimated == returned.fn = "estimateTokensFromText"

TokenizerFailed ==
    \/ returned.outcome.threw
    \/ returned.outcome.length.kind # "finite"
    \/ (returned.outcome.length.neg /\ returned.outcome.length.m > 0)

C25_CountFiniteNonNegative ==
    Estimated =>
        /\ isFinite(returned.value)
        /\ returned.value.e >= 0
        /\ ~returned.value.neg
        /\ TokenizerFailed => returned.value = CharEstimate(given.text)

\* a text of five characters whose tokenizer returned NaN: 2 is returned
C25_Witness ==
    /\ Estimated
    /\ Len(given.text) = 5
    /\ returned.outcome.length = NaN
    /\ ~returned.outcome.threw
    /\ returned.value = Integer(2)
C25_WitnessThrown ==
    /\ Estimated
    /\ Len(given.text) = 3
    /\ returned.outcome.threw
    /\ returned.value = Integer(1)
C25_WitnessCounted ==
    /\ Estimated
    /\ ~TokenizerFailed
    /\ returned.value = Integer(4)

(***************************************************************************)
(* ai_client/logger.ts AIClientLogger: sanitizeMetadata, logRequest and    *)
(* logError.  A value is a string, an object (its entries in order) or an  *)
(* array; the log sink is logging.ts logRequest.                           *)
(***************************************************************************)
MaxDepth == 2

StringValue(s) == [t |-> "string", s |-> s, entries |-> <<>>, items |-> <<>>]
ObjectValue(entries) == [t |-> "object", s |-> <<>>, entries |-> entries, items |-> <<>>]
ArrayValue(items) == [t |-> "array", s |-> <<>>, entries |-> <<>>, items |-> items]

UndefinedValue == [t |-> "undefined", s |-> <<>>, entries |-> <<>>, items |-> <<>>]

REDACTED == StringValue(<<"[REDACTED]">>)

\* field names of metadata, and the values of its leaves
FieldNames == { <<"a", "p", "i", "K", "e", "y">>, <<"n", "a", "m", "e">>,
                <<"d", "a", "t", "a">> }
REQUEST_ID == <<"requestId">>
LeafValues == { StringValue(<<"s", "k", "-", "1">>), StringValue(<<"v">>) }

\* the objects over the values V: one field, or one field and a leaf field
ObjectsOver(V) ==
    { <<[key |-> k, value |-> val]>> : k \in FieldNames, val \in V }
    \cup { <<[key |-> k, value |-> val], [key |-> k2, value |-> leaf]>> :
             k \in FieldNames, val \in V,
             k2 \in { n \in FieldNames : n # <<"d", "a", "t", "a">> },
             leaf \in LeafValues }

\* the values nested at most d objects or arrays deep
RECURSIVE ValuesOfDepth(_)
ValuesOfDepth(d) ==
    IF d = 0 THEN LeafValues
    ELSE LET V == ValuesOfDepth(d - 1)
         IN LeafValues
            \cup { ObjectValue(o) :
                     o \in { e \in ObjectsOver(V) :
                               Len(e) = 1 \/ e[1].key # e[2].key } }
            \cup { ArrayValue(<<val>>) : val \in V }

\* LogMetadata: absent, or an object that may carry the requestId
Metadatas ==
    { UndefinedValue, ObjectValue(<<>>) }
    \cup { ObjectValue(<<[key |-> k, value |-> val]>>) :
             k \in FieldNames \cup {REQUEST_ID}, val \in ValuesOfDepth(MaxDepth) }

\* String.prototype.toLowerCase on the letters of the field names
LowerChar(c) ==
    CASE c = "A" -> "a" [] c = "K" -> "k" [] c = "P" -> "p" [] c = "S" -> "s"
      [] c = "T" -> "t" [] OTHER -> c
toLowerCase(s) == [i \in 1..Len(s) |-> LowerChar(s[i])]

\* String.prototype.includes
includes(s, sub) ==
    \E i \in 1..(Len(s) - Len(sub) + 1) : SubSeq(s, i, i + Len(sub) - 1) = sub

sensitiveKeys ==
    { <<"a", "p", "i", "k", "e", "y">>, <<"a", "p", "i", "_", "k", "e", "y">>,
      <<"a", "u", "t", "h", "o", "r", "i", "z", "a", "t", "i", "o", "n">>,
      <<"t", "o", "k", "e", "n">>, <<"p", "a", "s", "s", "w", "o", "r", "d">>,
      <<"s", "e", "c", "r", "e", "t">> }

IsSensitive(key) == \E sk \in sensitiveKeys : includes(toLowerCase(key), sk)

\* the inner loop of sanitizeMetadata: the fields of an object value
sanitizeObject(entries) ==
    [i \in 1..Len(entries) |->
        IF IsSensitive(entries[i].key)
        THEN [key |-> entries[i].key, value |-> REDACTED]
        ELSE entries[i]]

\* sanitizeMetadata(metadata)
sanitizeMetadata(metadata) ==
    IF metadata.t = "undefined" THEN <<>>
    ELSE LET kept == SelectSeq(metadata.entries, LAMBDA en : en.key # REQUEST_ID)
         IN [i \in 1..Len(kept) |->
                IF IsSensitive(kept[i].key)
                THEN [key |-> kept[i].key, value |-> REDACTED]
                ELSE IF kept[i].value.t = "object"
                THEN [key |-> kept[i].key,
                      value |-> ObjectValue(sanitizeObject(kept[i].value.entries))]
                ELSE kept[i]]

LogInit ==
    /\ WriterIdle
    /\ ParserIdle
    /\ ReadIdle
    /\ returned = NoCall
    /\ \E metadata \in Metadatas :
        given = [fn |-> "log", metadata |-> metadata]

\* logRequest(message, metadata): systemLogRequest(..., sanitizeMetadata(metadata), ...)
LogRequest ==
    /\ given.fn = "log"
    /\ returned' = [fn |-> "logRequest", logged |-> sanitizeMetadata(given.metadata)]
    /\ UNCHANGED given
    /\ UNCHANGED <<writerVars, handlerVars, parserVars, readVars>>

\* logError(message, error, metadata) with an Error: its message and stack
\* are added to the sanitized metadata
LogError ==
    /\ given.fn = "log"
    /\ returned' = [fn |-> "logError",
                    logged |-> sanitizeMetadata(given.metadata)
                        \o <<[key |-> <<"e", "r", "r", "o", "r">>,
                              value |-> StringValue(<<"message">>)],
                             [key |-> <<"s", "t", "a", "c", "k">>,
                              value |-> StringValue(<<"stack">>)]>>]
    /\ UNCHANGED given
    /\ UNCHANGED <<writerVars, handlerVars, parserVars, readVars>>

LogNext == LogRequest \/ LogError

LogSpec == LogInit /\ [][LogNext]_vars

(***************************************************************************)
(* C26: in metadata passed through the AI client logger every field whose  *)
(* name contains apikey, api_key, authorization, token, password or secret *)
(* (case-insensitively) is replaced by a redaction marker before it        *)
(* reaches the log sink, at whatever nesting depth the field occurs.       *)
(***************************************************************************)
Logged == returned.fn \in {"logRequest", "logError"}

\* no sensitive field with a value other than the marker, at any depth
RECURSIVE Redacted(_)
Redacted(val) ==
    IF val.t = "object"
    THEN \A i \in 1..Len(val.entries) :
            IF IsSensitive(val.entries[i].key) THEN val.entries[i].value = REDACTED
            ELSE Redacted(val.entries[i].value)
    ELSE IF val.t = "array"
    THEN \A i \in 1..Len(val.items) : Redacted(val.items[i])
    ELSE TRUE

C26_SensitiveFieldsRedacted == Logged => Redacted(ObjectValue(returned.logged))

\* what the sanitizer does reach: the fields of the metadata and those of the
\* objects that are its direct values
RedactedToDepthOne ==
    \A i \in 1..Len(returned.logged) :
        LET en == returned.logged[i]
        IN IF IsSensitive(en.key) THEN en.value = REDACTED
           ELSE en.value.t = "object" =>
                \A j \in 1..Len(en.value.entries) :
                    IsSensitive(en.value.entries[j].key) =>
                        en.value.entries[j].value = REDACTED

C26_RedactedToDepthOne == Logged => RedactedToDepthOne

\* an apiKey two objects deep, and one in an object of an array, logged
C26_WitnessLeakAtDepthTwo ==
    /\ returned.fn = "logRequest"
    /\ Len(returned.logged) = 1
    /\ returned.logged[1].value.t = "object"
    /\ returned.logged[1].value.entries[1].value.t = "object"
    /\ IsSensitive(returned.logged[1].value.entries[1].value.entries[1].key)
    /\ returned.logged[1].value.entries[1].value.entries[1].value = StringValue(<<"s", "k", "-", "1">>)
C26_WitnessLeakInArray ==
    /\ returned.fn = "logError"
    /\ Len(returned.logged) = 3
    /\ returned.logged[1].value.t = "array"
    /\ returned.logged[1].value.items[1].t = "object"
    /\ IsSensitive(returned.logged[1].value.items[1].entries[1].key)
    /\ returned.logged[1].value.items[1].entries[1].value = StringValue(<<"s", "k", "-", "1">>)
C26_WitnessRedactedAtDepthOne ==
    /\ returned.fn = "logRequest"
    /\ Len(returned.logged) = 1
    /\ returned.logged[1].value.t = "object"
    /\ IsSensitive(returned.logged[1].value.entries[1].key)
    /\ given.metadata.entries[1].value.entries[1].value = StringValue(<<"s", "k", "-", "1">>)
    /\ returned.logged[1].value.entries[1].value = REDACTED

(***************************************************************************)
(* The upstream fetches: forward.ts forwardRequest, upstream.ts            *)
(* callUpstream and AIClient.request / AIClient.stream.  The upstream may  *)
(* stop responding at any point; time passes in ticks.                     *)
(***************************************************************************)
MaxTimeout == 2
MaxBodyChunks == 2

\* who issues the fetch, and the signal it gives to fetch():
\*   forwardRequest         signal: abortSignal (the client's abort signal)
\*   callUpstream           controller.signal, aborted by a timer that is
\*                          cleared in the finally after fetch() settles
\*   AIClient.request/.stream  AbortSignal.timeout(requestTimeoutMs || 120000)
FetchPaths == {"forwardRequest", "callUpstream", "AIClient.request", "AIClient.stream"}

FetchInit ==
    /\ WriterIdle
    /\ ParserIdle
    /\ ReadIdle
    /\ \E path \in FetchPaths, requestTimeoutMs \in 1..MaxTimeout,
          chunks \in 0..MaxBodyChunks :
        given = [fn |-> "fetch", path |-> path,
                 requestTimeoutMs |-> requestTimeoutMs, chunks |-> chunks]
    /\ returned = [fn |-> "fetch", phase |-> "idle", timer |-> "none",
                   elapsed |-> 0, read |-> 0]

\* fetch(url, {..., signal}) is called
StartFetch ==
    /\ given.fn = "fetch"
    /\ returned.phase = "idle"
    /\ returned' = [returned EXCEPT
                       !.phase = "pending",
                       !.timer = IF given.path = "forwardRequest" THEN "none"
                                 ELSE "armed"]
    /\ UNCHANGED given
    /\ UNCHANGED <<writerVars, handlerVars, parserVars, readVars>>

\* the upstream answers with the response head: fetch() resolves, and
\* callUpstream's finally runs clearTimeout(timeout)
UpstreamResponds ==
    /\ given.fn = "fetch"
    /\ returned.phase = "pending"
    /\ returned' = [returned EXCEPT
                       !.phase = IF given.chunks = 0 THEN "done" ELSE "body",
                       !.timer = IF given.path = "callUpstream" THEN "cleared" ELSE @]
    /\ UNCHANGED given
    /\ UNCHANGED <<writerVars, handlerVars, parserVars, readVars>>

\* the upstream sends the next part of the body; after the last one it ends
UpstreamSendsChunk ==
    /\ given.fn = "fetch"
    /\ returned.phase = "body"
    /\ returned' = [returned EXCEPT
                       !.read = @ + 1,
                       !.phase = IF returned.read + 1 = given.chunks THEN "done" ELSE @]
    /\ UNCHANGED given
    /\ UNCHANGED <<writerVars, handlerVars, parserVars, readVars>>

\* time passes while the fetch is under way
Tick ==
    /\ given.fn = "fetch"
    /\ returned.phase \in {"pending", "body"}
    /\ returned.timer = "armed"
    /\ returned.elapsed < given.requestTimeoutMs
    /\ returned' = [returned EXCEPT !.elapsed = @ + 1]
    /\ UNCHANGED given
    /\ UNCHANGED <<writerVars, handlerVars, parserVars, readVars>>

\* the timeout expires: the signal aborts the fetch or the read of its body
TimerFires ==
    /\ given.fn = "fetch"
    /\ returned.phase \in {"pending", "body"}
    /\ returned.timer = "armed"
    /\ returned.elapsed = given.requestTimeoutMs
    /\ returned' = [returned EXCEPT !.phase = "error", !.timer = "fired"]
    /\ UNCHANGED given
    /\ UNCHANGED <<writerVars, handlerVars, parserVars, readVars>>

\* the client disconnects: forwardRequest's abortSignal aborts its fetch
ClientAborts ==
    /\ given.fn = "fetch"
    /\ given.path = "forwardRequest"
    /\ returned.phase \in {"pending", "body"}
    /\ returned' = [returned EXCEPT !.phase = "error"]
    /\ UNCHANGED given
    /\ UNCHANGED <<writerVars, handlerVars, parserVars, readVars>>

FetchNext ==
    \/ StartFetch
    \/ UpstreamResponds
    \/ UpstreamSendsChunk
    \/ Tick
    \/ TimerFires
    \/ ClientAborts

FetchSpec == FetchInit /\ [][FetchNext]_vars

\* the program runs and time passes; nothing obliges the upstream to respond
\* or the client to disconnect
FairFetchSpec ==
    /\ FetchSpec
    /\ WF_vars(StartFetch)
    /\ WF_vars(Tick)
    /\ WF_vars(TimerFires)

(***************************************************************************)
(* C27: every upstream fetch issued for a request is subject to the        *)
(* configured per-request timeout: if the upstream stops responding the    *)
(* fetch is eventually aborted and the request terminates with an error    *)
(* instead of waiting forever.                                             *)
(***************************************************************************)
FetchUnderWay == returned.fn = "fetch" /\ returned.phase \in {"pending", "body"}
FetchOver == returned.fn = "fetch" /\ returned.phase \in {"done", "error"}

C27_EveryFetchTimesOut == FetchUnderWay ~> FetchOver

\* the fetches of AIClient do end
C27_AIClientFetchTimesOut ==
    (FetchUnderWay /\ given.path \in {"AIClient.request", "AIClient.stream"}) ~> FetchOver

\* no timer runs for a fetch of forwardRequest, and none while the body of a
\* callUpstream response is read
C27_NoTimerInForwardRequest ==
    (returned.fn = "fetch" /\ given.path = "forwardRequest") => returned.timer = "none"
C27_TimerClearedAfterHead ==
    (FetchUnderWay /\ given.path = "callUpstream" /\ returned.phase = "body")
        => returned.timer = "cleared"

C27_WitnessForwardRequestPending ==
    /\ FetchUnderWay
    /\ given.path = "forwardRequest"
    /\ returned.timer = "none"
C27_WitnessBodyWithoutTimer ==
    /\ FetchUnderWay
    /\ given.path = "callUpstream"
    /\ returned.phase = "body"
    /\ returned.timer = "cleared"
C27_WitnessTimedOut ==
    /\ returned.fn = "fetch"
    /\ given.path = "AIClient.stream"
    /\ returned.phase = "error"
    /\ returned.timer = "fired"
    /\ returned.read = 1

(***************************************************************************)
(* C28: at most one content block is open at any time in a response: a     *)
(* Thinking or ToolCall event arriving while a text block is open flushes  *)
(* the pending text and sends the text block's content_block_stop before   *)
(* the next content_block_start, and a Text or ToolCall event arriving     *)
(* while a thinking block is open closes the thinking block first.         *)
(***************************************************************************)
\* the number of blocks started and not stopped after the first i frames
OpenAfter(i) ==
    Cardinality({ j \in 1..i : IsStart(frames[j]) })
        - Cardinality({ j \in 1..i : IsStop(frames[j]) })

C28_PendingTextFlushedFirst ==
    [][(Len(evlog') = Len(evlog) + 1
          /\ evlog'[Len(evlog')].type \in {"thinking", "tool_call"})
        => /\ aggregator' = <<>>
           /\ ~context'.textBlockOpen
           /\ aggregator # <<>> =>
                \E i \in (Len(frames) + 1)..(Len(frames') - 1) :
                    /\ IsTextDelta(frames'[i])
                    /\ frames'[i].data = aggregator
                    /\ \E j \in (i + 1)..Len(frames') :
                          IsStop(frames'[j]) /\ frames'[j].index = frames'[i].index]_vars

IsPing(fr) == fr.event = "ping"

PingsByRetry == Count(RetryFrames, IsPing)

\* the pings of the retry branch sent before its tool_use block starts
PingsBeforeToolUse ==
    LET starts == Positions(RetryFrames, IsToolStart)
    IN Count(Prefix(RetryFrames, starts[1] - 1), IsPing)

AttemptPending == hpc = "retry" /\ attempt <= maxRetries

C29_OnePingPerAttempt ==
    branch = "retry" =>
        IF retryCfg.keepAlive
        THEN /\ AttemptPending => PingsByRetry = retryCalls + 1
             /\ ~AttemptPending => PingsByRetry = retryCalls
             /\ retrySuccess => PingsBeforeToolUse = retryCalls
        ELSE PingsByRetry = 0

C29_WitnessFirstAttempt ==
    /\ hpc = "done" /\ branch = "retry" /\ retryCfg.keepAlive
    /\ retrySuccess /\ retryCalls = 1
    /\ PingsByRetry = 1 /\ PingsBeforeToolUse = 1

C29_WitnessSecondAttempt ==
    /\ hpc = "done" /\ branch = "retry" /\ retryCfg.keepAlive
    /\ retryCalls = 2 /\ PingsByRetry = 2

C29_WitnessNoKeepAlive ==
    /\ hpc = "done" /\ branch = "retry" /\ ~retryCfg.keepAlive
    /\ retryCalls = 2 /\ PingsByRetry = 0
(***************************************************************************)
(* forwardRequest: the non-streaming response                              *)
(***************************************************************************)
MaxPieces == 2

\* a tool call the parser accepts, and one that is opened and never closed
WellFormedCall == TC_START \o <<"\n">> \o InvokeBlock

MalformedCall == TC_START \o <<"\n">> \o INVOKE_OPEN \o <<"f">> \o ATTR_CLOSE

ResponsePieces ==
    { <<"a">>, THINKING_OPEN \o <<"t">> \o THINKING_CLOSE, WellFormedCall, MalformedCall }

\* the text of the upstream's answer
ResponseTexts ==
    UNION { { Concat(ps) : ps \in [1..n -> ResponsePieces] } : n \in 0..MaxPieces }

\* message.tool_calls of an OpenAI answer, content[].tool_use of an Anthropic one
NativeToolCalls ==
    {<<>>} \cup { <<[name |-> <<"f">>, arguments |-> a]>> :
                    a \in { <<>>, <<"{", "}">>, <<"{">> } }

FinishReasons(protocol) ==
    IF protocol = "openai"
    THEN {"undefined", "stop", "length", "tool_calls"}
    ELSE {"undefined", "end_turn", "max_tokens", "tool_use"}

\* the body of the upstream's answer: the text of the message (OpenAI) or of
\* the text block (Anthropic), the native tool calls, the reason it stopped
UpstreamJsons(protocol) ==
    [ok : BOOLEAN, text : ResponseTexts, tool_calls : NativeToolCalls,
     finish_reason : FinishReasons(protocol)]

ContentBlock(type, text, name) == [type |-> type, text |-> text, name |-> name]

\* adapter.parseResponse(json): finish_reason is choices[0].finish_reason
\* (OpenAI) or stop_reason (Anthropic)
parseResponse(json) ==
    [content |-> json.text, finish_reason |-> json.finish_reason, raw |-> json]

\* the events processTextContent pushes a block for
PushesBlock(event) ==
    \/ event.type = "tool_call"
    \/ event.type \in {"text", "thinking", "tool_call_failed"} /\ event.content # <<>>

BlockOfEvent(event) ==
    CASE event.type = "text" -> ContentBlock("text", event.content, <<>>)
      [] event.type = "tool_call" -> ContentBlock("tool_use", <<>>, event.name)
      [] event.type = "thinking" -> ContentBlock("thinking", event.content, <<>>)
      [] event.type = "tool_call_failed" -> ContentBlock("text", event.content, <<>>)

\* parser.feedChar over the text, parser.finish(), parser.consumeEvents()
ParsedEvents(text) == parserFinish(feed(NewParser(TRUE), text)).events

processTextContent(delimiter, text) ==
    IF delimiter
    THEN LET pushed == SelectSeq(ParsedEvents(text), PushesBlock)
         IN [i \in 1..Len(pushed) |-> BlockOfEvent(pushed[i])]
    ELSE <<ContentBlock("text", text, <<>>)>>

NativeBlocks(calls) ==
    [i \in 1..Len(calls) |-> ContentBlock("tool_use", <<>>, calls[i].name)]

\* JSON.parse(func.arguments) of the OpenAI branch throws
ArgumentsThrow(calls) ==
    \E i \in 1..Len(calls) : calls[i].arguments = <<"{">>

\* the content array: the Anthropic branch handles every text block, the
\* OpenAI branch a message.content that is not empty
BuildContent(protocol, delimiter, aiResponse) ==
    LET raw == aiResponse.raw
    IN IF protocol = "anthropic"
       THEN processTextContent(delimiter, raw.text) \o NativeBlocks(raw.tool_calls)
       ELSE (IF raw.text # <<>> THEN processTextContent(delimiter, raw.text) ELSE <<>>)
            \o NativeBlocks(raw.tool_calls)

\* stop_reason: aiResponse.finish_reason || "end_turn"
StopReasonOf(aiResponse) ==
    IF aiResponse.finish_reason = "undefined" THEN "end_turn" ELSE aiResponse.finish_reason

Thrown == [fn |-> "forwardRequest", threw |-> TRUE, content |-> <<>>, stop_reason |-> ""]

NonStreamInit ==
    /\ WriterIdle
    /\ ParserIdle
    /\ ReadIdle
    /\ returned = NoCall
    /\ \E protocol \in {"openai", "anthropic"}, delimiter \in BOOLEAN :
        \E json \in UpstreamJsons(protocol) :
            given = [fn |-> "forwardRequest", protocol |-> protocol,
                     delimiter |-> delimiter, json |-> json]

\* if (!response.ok) throw new Error(`Upstream returned ...`)
UpstreamNotOk ==
    /\ given.fn = "forwardRequest"
    /\ returned = NoCall
    /\ ~given.json.ok
    /\ returned' = Thrown
    /\ UNCHANGED given
    /\ UNCHANGED <<writerVars, handlerVars, parserVars, readVars>>

\* const json = await response.json(); const aiResponse = adapter.parseResponse(json)
ParseResponse ==
    /\ given.fn = "forwardRequest"
    /\ returned = NoCall
    /\ given.json.ok
    /\ returned' = [fn |-> "parseResponse", aiResponse |-> parseResponse(given.json)]
    /\ UNCHANGED given
    /\ UNCHANGED <<writerVars, handlerVars, parserVars, readVars>>

\* the content array is filled and the message returned
BuildResponse ==
    /\ returned.fn = "parseResponse"
    /\ returned' =
        IF given.protocol = "openai" /\ ArgumentsThrow(given.json.tool_calls)
        THEN Thrown
        ELSE [fn |-> "forwardRequest", threw |-> FALSE,
              content |-> BuildContent(given.protocol, given.delimiter,
                                       returned.aiResponse),
              stop_reason |-> StopReasonOf(returned.aiResponse)]
    /\ UNCHANGED given
    /\ UNCHANGED <<writerVars, handlerVars, parserVars, readVars>>

NonStreamNext == UpstreamNotOk \/ ParseResponse \/ BuildResponse

NonStreamSpec == NonStreamInit /\ [][NonStreamNext]_vars

(***************************************************************************)
(* C30: in the non-streaming response built by forwardRequest, stop_reason *)
(* is "tool_use" if and only if the content array has at least one         *)
(* tool_use block, and it is "end_turn" when a malformed tool call was     *)
(* degraded to text.                                                       *)
(***************************************************************************)
Responded == returned.fn = "forwardRequest" /\ ~returned.threw

IsToolUseBlock(b) == b.type = "tool_use"

HasToolUse == Count(returned.content, IsToolUseBlock) > 0

IsFailedWithContent(e) == e.type = "tool_call_failed" /\ e.content # <<>>

\* processTextContent ran the parser and pushed a failed call's text
DegradedToText ==
    /\ given.delimiter
    /\ given.protocol = "openai" => given.json.text # <<>>
    /\ Count(ParsedEvents(given.json.text), IsFailedWithContent) > 0

C30_StopReasonIffToolUse ==
    Responded =>
        /\ returned.stop_reason = "tool_use" <=> HasToolUse
        /\ (DegradedToText /\ ~HasToolUse) => returned.stop_reason = "end_turn"

\* what the code does: the upstream's reason is handed on, whatever the content
C30_StopReasonIsUpstreams ==
    Responded =>
        returned.stop_reason =
            IF given.json.finish_reason = "undefined" THEN "end_turn"
            ELSE given.json.finish_reason

\* a tool call was parsed out of the text, and a failed call is text only
C30_ContentFollowsParser ==
    Responded =>
        /\ (given.delimiter /\ given.json.text = WellFormedCall) => HasToolUse
        /\ (given.json.tool_calls = <<>> /\ DegradedToText) => ~HasToolUse

C30_WitnessToolUseButStop ==
    /\ Responded /\ given.protocol = "openai" /\ given.delimiter
    /\ given.json.text = <<"a">> \o WellFormedCall
    /\ HasToolUse /\ returned.stop_reason = "stop"

C30_WitnessDegradedNotEndTurn ==
    /\ Responded /\ DegradedToText /\ ~HasToolUse
    /\ returned.stop_reason = "stop"

C30_WitnessToolUseWithoutBlock ==
    /\ Responded /\ given.protocol = "anthropic" /\ ~HasToolUse
    /\ returned.stop_reason = "tool_use"

C30_WitnessDegradedEndTurn ==
    /\ Responded /\ DegradedToText /\ ~HasToolUse
    /\ returned.stop_reason = "end_turn"
(***************************************************************************)
(* C31: once handleOpenAIStream has seen the upstream's `data: [DONE]`     *)
(* line, no content of a later data line, of the same read or of a later   *)
(* read, is fed to the parser or reaches the client.                       *)
(***************************************************************************)
\* the bytes the reads have returned so far
Consumed == SubSeq(stream, 1, Len(stream) - Len(body))

IsDoneLine(line) == trim(line) = DATA_PREFIX \o DONE_MARKER

\* a complete [DONE] line is among the lines the loop has gone over
DoneSeen ==
    LET lines == split(Consumed)
    IN \E i \in 1..(Len(lines) - 1) : IsDoneLine(lines[i])

SentText == DataOf(frames, IsTextDelta) \o aggregator

C31_NothingFedAfterDone ==
    [][DoneSeen => fed' = fed /\ SentText' = SentText]_vars

\* what holds: the lines that follow [DONE] in the read that brings it are
\* skipped, so nothing is fed after a [DONE] that nothing follows
C31_NothingFedAfterLastDone ==
    [][(DoneSeen /\ NothingAfterDone(stream)) => fed' = fed]_vars

\* a content line after [DONE] came in a later read and was fed
C31_WitnessFedAfterDone ==
    /\ hpc = "done"
    /\ stream = DATA_PREFIX \o DONE_MARKER \o LF \o DataLine(<<"a">>) \o LF
    /\ FedText = <<"a">>
    /\ DataOf(frames, IsTextDelta) = <<"a">>

\* the same body in one read: nothing fed
C31_WitnessSkippedInSameRead ==
    /\ hpc = "done"
    /\ stream = DATA_PREFIX \o DONE_MARKER \o LF \o DataLine(<<"a">>) \o LF
    /\ FedText = <<>>
(***************************************************************************)
(* C32: an upstream data line that is not JSON is dropped without ending   *)
(* the response: the text of every well-formed data line before and after  *)
(* it is still fed to the parser in order, and no error frame is sent to   *)
(* the client for it.                                                      *)
(***************************************************************************)
MalformedLine == DATA_PREFIX \o <<"{c:", "a">>

IsMalformedLine(line) ==
    LET trimmed == trim(line)
        jsonStr == DropFirst(trimmed, Len(DATA_PREFIX))
    IN /\ StartsWith(trimmed, DATA_PREFIX)
       /\ jsonStr # DONE_MARKER
       /\ ~parseDelta(jsonStr).ok

IsNotMalformedLine(line) == ~IsMalformedLine(line)

\* the lines the read of this step completes
LinesOfThisRead ==
    LET lines == split(buffer \o SubSeq(body, 1, Len(body) - Len(body')))
    IN SubSeq(lines, 1, Len(lines) - 1)

HasMalformedLine(lines) == \E i \in 1..Len(lines) : IsMalformedLine(lines[i])

\* each read feeds what it would feed with its malformed lines taken out
MalformedLinesDropped ==
    (hpc = "reading" /\ body' # body) =>
        fed' = fed \o lineContents(SelectSeq(LinesOfThisRead, IsNotMalformedLine))

\* the response goes on to its end and carries no error frame
ResponseNotEnded ==
    /\ Count(frames, IsErrorFrame) = 0
    /\ hpc = "done" => frames[Len(frames)].event = "message_stop"
    /\ (hpc = "reading" /\ frames # <<>>) => frames[Len(frames)].event # "message_stop"

C32_MalformedLineDropped == [](ResponseNotEnded) /\ [][MalformedLinesDropped]_vars

\* a well-formed line, a malformed one and a well-formed one: both texts fed
C32_Witness ==
    /\ hpc = "done"
    /\ stream = DataLine(<<"a">>) \o LF \o MalformedLine \o LF \o DataLine(<<"a">>) \o LF
    /\ FedText = <<"a", "a">>
    /\ DataOf(frames, IsTextDelta) = <<"a", "a">>
    /\ Count(frames, IsErrorFrame) = 0
(***************************************************************************)
(* ClaudeStream: the token multiplier and usage.output_tokens of finish()  *)
(***************************************************************************)
MaxTotal == 5

\* the values config.tokenMultiplier can hold
ConfiguredMultipliers ==
    { NaN, Infinity(FALSE), Infinity(TRUE), Zero(FALSE),
      [kind |-> "finite", neg |-> TRUE, m |-> 2, e |-> 0],
      One,
      [kind |-> "finite", neg |-> FALSE, m |-> 2, e |-> 0],
      [kind |-> "finite", neg |-> FALSE, m |-> 12, e |-> -1],
      [kind |-> "finite", neg |-> FALSE, m |-> 5, e |-> -1],
      [kind |-> "finite", neg |-> FALSE, m |-> 25, e |-> -2],
      [kind |-> "finite", neg |-> FALSE, m |-> 1, e |-> -323],
      [kind |-> "finite", neg |-> FALSE, m |-> 1, e |-> 308] }

\* this.tokenMultiplier = Number.isFinite(m) && m > 0 ? m : 1.0
constructorMultiplier(configured) ==
    IF isFinite(configured) /\ GreaterThanZero(configured) THEN configured ELSE One

\* totalOutputTokens * tokenMultiplier, a count times a positive double
Times(total, multiplier) == toDouble(FALSE, total * multiplier.m, multiplier.e)

\* Math.ceil of a double that is not negative
Ceil(num) ==
    IF num.kind # "finite" \/ num.m = 0 \/ num.e >= 0 THEN num
    ELSE IF CountDigits(num.m) <= -num.e THEN One
    ELSE Canonical(FALSE, (num.m + Pow10(-num.e) - 1) \div Pow10(-num.e), 0)

\* Math.max(1, x) for x an integer that is not negative, or an infinity
Max1(num) == IF num.kind = "finite" /\ num.m = 0 THEN One ELSE num

TokenCount(total) == IF total = 0 THEN Zero(FALSE) ELSE Canonical(FALSE, total, 0)

\* the output tokens without the clamp to 1
adjustedOutputTokensUnclamped(total, multiplier) ==
    LET raw == Times(total, multiplier)
    IN Ceil(IF isFinite(raw) THEN raw ELSE TokenCount(total))

\* Math.max(1, Math.ceil(Number.isFinite(raw) ? raw : totalOutputTokens || 1))
adjustedOutputTokens(total, multiplier) ==
    LET raw == Times(total, multiplier)
    IN Max1(Ceil(IF isFinite(raw) THEN raw
                 ELSE IF total = 0 THEN One ELSE TokenCount(total)))

UsageInit ==
    /\ WriterIdle
    /\ ParserIdle
    /\ ReadIdle
    /\ returned = NoCall
    /\ \E configured \in ConfiguredMultipliers, total \in 0..MaxTotal :
        given = [fn |-> "ClaudeStream", tokenMultiplier |-> configured,
                 totalOutputTokens |-> total]

\* new ClaudeStream(writer, config, requestId, inputTokens)
Construct ==
    /\ given.fn = "ClaudeStream"
    /\ returned = NoCall
    /\ returned' = [fn |-> "constructor",
                    tokenMultiplier |-> constructorMultiplier(given.tokenMultiplier),
                    output_tokens |-> Zero(FALSE)]
    /\ UNCHANGED given
    /\ UNCHANGED <<writerVars, handlerVars, parserVars, readVars>>

\* finish(): the usage of the message_delta frame
FinishUsage ==
    /\ returned.fn = "constructor"
    /\ returned' = [returned EXCEPT
                      !.fn = "finish",
                      !.output_tokens = adjustedOutputTokens(given.totalOutputTokens,
                                                             returned.tokenMultiplier)]
    /\ UNCHANGED given
    /\ UNCHANGED <<writerVars, handlerVars, parserVars, readVars>>

UsageNext == Construct \/ FinishUsage

UsageSpec == UsageInit /\ [][UsageNext]_vars

(***************************************************************************)
(* C33: usage.output_tokens of message_delta is an integer >= 1 for every  *)
(* response, equal to max(1, ceil(accumulated tokens * multiplier)), where *)
(* a configured multiplier that is NaN, infinite, zero or negative counts  *)
(* as 1; a response with no content reports 1.                             *)
(***************************************************************************)
UsageSent == returned.fn = "finish"

IsIntegerAtLeastOne(num) == num.kind = "finite" /\ ~num.neg /\ num.e >= 0 /\ num.m >= 1

\* the multiplier the statement applies
TreatedMultiplier ==
    LET c == given.tokenMultiplier
    IN IF c.kind # "finite" \/ c.neg \/ c.m = 0 THEN One ELSE c

Product == Times(given.totalOutputTokens, TreatedMultiplier)

C33_OutputTokensFormula ==
    UsageSent =>
        /\ IsIntegerAtLeastOne(returned.output_tokens)
        /\ returned.output_tokens = Max1(Ceil(Product))

\* C33 as the code has it: the formula when the product is a finite double,
\* the accumulated count itself (at least 1) when the product overflows
C33_OutputTokensUnlessOverflow ==
    UsageSent =>
        /\ IsIntegerAtLeastOne(returned.output_tokens)
        /\ isFinite(Product) => returned.output_tokens = Max1(Ceil(Product))
        /\ ~isFinite(Product) =>
              returned.output_tokens = Max1(TokenCount(given.totalOutputTokens))
        /\ given.totalOutputTokens = 0 => returned.output_tokens = One

C33_Witness ==
    /\ UsageSent
    /\ given.totalOutputTokens = 3
    /\ given.tokenMultiplier = [kind |-> "finite", neg |-> FALSE, m |-> 12, e |-> -1]
    /\ returned.output_tokens = [kind |-> "finite", neg |-> FALSE, m |-> 4, e |-> 0]

C33_WitnessNoContent ==
    /\ UsageSent /\ given.totalOutputTokens = 0 /\ given.tokenMultiplier = NaN
    /\ returned.output_tokens = One

C33_WitnessOverflow ==
    /\ UsageSent
    /\ given.totalOutputTokens = 2
    /\ given.tokenMultiplier = [kind |-> "finite", neg |-> FALSE, m |-> 1, e |-> 308]
    /\ returned.output_tokens = [kind |-> "finite", neg |-> FALSE, m |-> 2, e |-> 0]
(***************************************************************************)
(* C34: for every ToolCall event the partial_json strings of the           *)
(* input_json_delta frames between the tool_use content_block_start and    *)
(* its content_block_stop, concatenated in order, are the JSON             *)
(* serialization of the call's arguments; each chunk has at most 5         *)
(* characters and there is at least one delta even for empty arguments;    *)
(* the thinking_delta chunks give back the Thinking content the same way.  *)
(***************************************************************************)
IsInputJsonDelta(fr) == IsDelta(fr) /\ fr.kind = "input_json_delta"

\* the position of the content_block_stop that closes the block started at i
StopOf(i) ==
    CHOOSE j \in (i + 1)..Len(frames) :
        /\ IsStop(frames[j]) /\ frames[j].index = frames[i].index
        /\ \A k \in (i + 1)..(j - 1) :
              ~(IsStop(frames[k]) /\ frames[k].index = frames[i].index)

\* the frames strictly between the start at i and its stop
Between(i) == SubSeq(frames, i + 1, StopOf(i) - 1)

ChunkSized(fr) == Len(fr.data) >= 1 /\ Len(fr.data) <= 5

ToolCallRoundTrip ==
    LET calls == Positions(evlog, IsToolCallEv)
        starts == Positions(frames, IsToolStart)
    IN /\ Len(calls) = Len(starts)
       /\ \A k \in 1..Len(calls) :
            LET inside == Between(starts[k])
            IN /\ Len(inside) >= 1
               /\ \A n \in 1..Len(inside) :
                     /\ IsInputJsonDelta(inside[n])
                     /\ inside[n].index = frames[starts[k]].index
                     /\ ChunkSized(inside[n])
               /\ DataOf(inside, IsInputJsonDelta)
                    = JSONStringify(evlog[calls[k]].arguments)

\* the thinking_delta frames an event's content was cut into
ThinkingChunkCount(e) == IF IsThinkingEv(e) THEN CeilDiv(Len(e.content), 5) ELSE 0

RECURSIVE SumOver(_)
SumOver(ns) == IF ns = <<>> THEN 0 ELSE Head(ns) + SumOver(Tail(ns))

ThinkingRoundTrip ==
    /\ DataOf(frames, IsThinkingDelta) = ContentOf(evlog, IsThinkingEv)
    /\ \A i \in 1..Len(frames) : IsThinkingDelta(frames[i]) => ChunkSized(frames[i])
    /\ Count(frames, IsThinkingDelta)
         = SumOver([i \in 1..Len(evlog) |-> ThinkingChunkCount(evlog[i])])

C34_DeltasRoundTrip == ToolCallRoundTrip /\ ThinkingRoundTrip

\* a call with arguments in two chunks, one with empty arguments in one
C34_Witness ==
    /\ Len(evlog) >= 2
    /\ evlog[1] = ToolCallEv(<<"f">>, << <<<<"k">>, <<"v">>>> >>)
    /\ evlog[2] = ToolCallEv(<<"f">>, <<>>)
    /\ Count(frames, IsInputJsonDelta) = 3
    /\ DataOf(frames, IsInputJsonDelta)
         = <<"{", "\"", "k", "\"", ":", "\"", "v", "\"", "}", "{", "}">>

\* a Thinking content longer than one chunk
C34_WitnessThinking ==
    /\ \E i \in 1..Len(evlog) : IsThinkingEv(evlog[i]) /\ Len(evlog[i].content) > 5
    /\ Count(frames, IsThinkingDelta) >= 2
(***************************************************************************)
(* C35: consecutive Thinking events with no Text or ToolCall event between *)
(* them are written into one and the same thinking block: only the first   *)
(* produces a content_block_start, and an empty Thinking content opens no  *)
(* block.                                                                  *)
(***************************************************************************)
IsFilledThinkingEv(e) == IsThinkingEv(e) /\ e.content # <<>>

\* a Thinking event with content was handled and no Text or ToolCall event
\* came after it
ThinkingRunUnderWay ==
    \E i \in 1..Len(evlog) :
        /\ IsFilledThinkingEv(evlog[i])
        /\ \A j \in (i + 1)..Len(evlog) : ~IsTextEv(evlog[j]) /\ ~IsToolCallEv(evlog[j])

\* the frames this step sends
NewFrames == SubSeq(frames', Len(frames) + 1, Len(frames'))

LastThinkingStart ==
    LET starts == Positions(frames, IsThinkingStart)
    IN frames[starts[Len(starts)]]

\* a Thinking event is handled while the response is not closed by an End event
ThinkingEventHandled ==
    /\ Len(evlog') = Len(evlog) + 1
    /\ IsThinkingEv(evlog'[Len(evlog')])
    /\ Count(evlog, IsEndEv) = 0

ThinkingJoinsItsRun ==
    ThinkingEventHandled =>
        LET e == evlog'[Len(evlog')]
        IN IF e.content = <<>>
           THEN Count(NewFrames, IsThinkingStart) = 0 /\ Count(NewFrames, IsThinkingDelta) = 0
           ELSE IF ThinkingRunUnderWay
           THEN /\ Count(NewFrames, IsStart) = 0
                /\ Count(NewFrames, IsStop) = 0
                /\ \A n \in 1..Len(NewFrames) :
                      /\ IsThinkingDelta(NewFrames[n])
                      /\ NewFrames[n].index = LastThinkingStart.index
           ELSE Count(NewFrames, IsThinkingStart) = 1

C35_WitnessEmpty ==
    /\ Len(evlog) = 1
    /\ IsThinkingEv(evlog[1]) /\ evlog[1].content = <<>>
    /\ Count(frames, IsStart) = 0
(***************************************************************************)
(* The aggregator's timer against handleEvents.  The flush callback        *)
(* flushText is suspended where it awaits the write of the                 *)
(* content_block_start it sends; the handler goes on with later events     *)
(* meanwhile, and a forced flush finds the aggregator's flush under way    *)
(* and returns at once.                                                    *)
(***************************************************************************)
Flushing == returned.fn = "flushText"

\* handleEvents([event]) by the handler; while the timer's flush is under
\* way flushAsync() does nothing and added text stays in the buffer
HandleDuringTimer(event) ==
    /\ hpc = "open"
    /\ Len(evlog) < MaxEvents
    /\ LET r == handleEvents(IF Flushing THEN [CurW EXCEPT !.agg = <<>>] ELSE CurW,
                             <<event>>)
       IN SetW(IF Flushing THEN [r EXCEPT !.agg = aggregator \o r.agg] ELSE r)
    /\ evlog' = Append(evlog, event)
    /\ UNCHANGED <<parserVars, readVars, pureVars>>
    /\ UNCHANGED handlerVars

TimedText == \E c \in TextContents : HandleDuringTimer(TextEv(c))

TimedThinking == \E c \in ThinkingContents : HandleDuringTimer(ThinkingEv(c))

TimedToolCall == \E n \in ToolNames, a \in ToolArgs : HandleDuringTimer(ToolCallEv(n, a))

TimedEnd == HandleDuringTimer(EndEv)

\* the timer fires: the buffer is handed to flushText, which runs up to the
\* write of the content_block_start; with a text block open there is no such
\* write and the text_delta is sent at once
AggregatorTimerFires ==
    /\ hpc = "open"
    /\ ~Flushing
    /\ aggregator # <<>>
    /\ IF context.textBlockOpen
       THEN /\ SetW(flushAsync(CurW))
            /\ UNCHANGED returned
       ELSE /\ SetW(ensureTextBlock([CurW EXCEPT !.agg = <<>>]))
            /\ returned' = [fn |-> "flushText", text |-> aggregator]
    /\ UNCHANGED given
    /\ UNCHANGED <<parserVars, readVars, evlog, handlerVars>>

\* flushText goes on after await this.ensureTextBlock(): the tokens, then the
\* text_delta with index nextBlockIndex - 1
FlushTextResumes ==
    /\ Flushing
    /\ LET w == [CurW EXCEPT !.ctx.totalOutputTokens = @ + countTokens(returned.text)]
       IN SetW(Send(w, Frame("content_block_delta", w.ctx.nextBlockIndex - 1,
                             "text_delta", returned.text)))
    /\ returned' = NoCall
    /\ UNCHANGED given
    /\ UNCHANGED <<parserVars, readVars, evlog, handlerVars>>

TimerNext ==
    \/ StreamInit
    \/ TimedText
    \/ TimedThinking
    \/ TimedToolCall
    \/ TimedEnd
    \/ AggregatorTimerFires
    \/ FlushTextResumes

TimerSpec == Init /\ [][TimerNext]_vars

(***************************************************************************)
(* C36: under every interleaving of the aggregator's timer-driven flush    *)
(* with the handling of later events, each text_delta frame carries the    *)
(* index of a text block that is open when the frame is sent: never the    *)
(* index of a thinking or tool_use block, never an index whose             *)
(* content_block_stop was already sent.                                    *)
(***************************************************************************)
\* frame i carries the index of a text block started and not stopped before i
InOpenTextBlock(i) ==
    \E j \in 1..(i - 1) :
        /\ IsTextStart(frames[j])
        /\ frames[j].index = frames[i].index
        /\ \A k \in (j + 1)..(i - 1) :
              ~(IsStop(frames[k]) /\ frames[k].index = frames[i].index)

C36_TextDeltaInOpenTextBlock ==
    \A i \in 1..Len(frames) : IsTextDelta(frames[i]) => InOpenTextBlock(i)

\* the flush was suspended, a Thinking event was handled, and the text_delta
\* went out with the index of the thinking block
C36_WitnessThinkingIndex ==
    \E i \in 1..Len(frames) :
        /\ IsTextDelta(frames[i])
        /\ \E j \in 1..(i - 1) :
              IsThinkingStart(frames[j]) /\ frames[j].index = frames[i].index

\* the same with an End event: a text_delta after message_stop, for a block
\* that was stopped
C36_WitnessAfterStop ==
    \E i \in 1..Len(frames) :
        /\ IsTextDelta(frames[i])
        /\ \E j \in 1..(i - 1) : IsMessageStop(frames[j])
        /\ \E j \in 1..(i - 1) : IsStop(frames[j]) /\ frames[j].index = frames[i].index

\* with nothing handled while the flush is suspended the frame is in its block
C36_WitnessUndisturbed ==
    /\ ~Flushing
    /\ Len(evlog) = 1
    /\ Count(frames, IsTextDelta) = 1
    /\ C36_TextDeltaInOpenTextBlock

(***************************************************************************)
(* C37: what is left in the buffer when the upstream body ends             *)
(***************************************************************************)
\* the contents the loop over the lines would feed for what is still buffered
BufferedContents == lineContents(<<buffer>>)

\* the body ended with a data line that no newline terminates
LastLineUnterminated ==
    /\ stream # <<>>
    /\ stream[Len(stream)] # "\n"
    /\ BufferedContents # <<>>

\* C37: when the upstream body has ended and finish() has been called, every
\* data line received has contributed its text to the parser, the last line
\* without a newline included: the buffer holds no content that was not fed.
C37_NoBufferedTextDiscarded == hpc = "done" => BufferedContents = <<>>

\* the same for the lines a newline terminates: all of them were taken out of
\* the buffer and gone through before finish()
C37_TerminatedLinesAllRead ==
    hpc = "done" => buffer = split(stream)[Len(split(stream))]

\* finish() was called with the content of the last data line still buffered
C37_WitnessDiscarded ==
    /\ hpc = "done"
    /\ parser.finished
    /\ LastLineUnterminated
    /\ BufferedContents = <<<<"a">>>>

(***************************************************************************)
(* ContextBuilder.  A message is an object on the heap, named by its       *)
(* position in it, and a message list is a sequence of such references:    *)
(* two lists that hold the same reference share the message object.  No    *)
(* operation writes to an array, so a list is kept by its value.  A string *)
(* content is a sequence of characters; a content that is an array of      *)
(* blocks is kept by its blocks.                                           *)
(***************************************************************************)
MaxClientMessages == 2
MaxCalls == 2

StringContent(text) == [isString |-> TRUE, text |-> text, blocks |-> <<>>]
BlocksContent(blocks) == [isString |-> FALSE, text |-> <<>>, blocks |-> blocks]
ClaudeMessage(role, content) == [role |-> role, content |-> content]

ClientContents ==
    { StringContent(<<"a">>), BlocksContent(<<[type |-> "text", text |-> <<"b">>]>>) }

ClientMessages ==
    { ClaudeMessage(role, content) : role \in {"user", "assistant"},
                                     content \in ClientContents }

ClientMessageLists == UNION { [1..n -> ClientMessages] : n \in 1..MaxClientMessages }

\* the messages a list refers to
Deref(heap, list) == [i \in 1..Len(list) |-> heap[list[i]]]

\* return [...messages, { role: "user", content }]
appendUserMessage(heap, messages, content) ==
    [heap |-> Append(heap, ClaudeMessage("user", content)),
     list |-> Append(messages, Len(heap) + 1)]

\* return [...messages, { role: "assistant", content }]
appendAssistantMessage(heap, messages, content) ==
    [heap |-> Append(heap, ClaudeMessage("assistant", content)),
     list |-> Append(messages, Len(heap) + 1)]

\* the failed content before the prior text
buildRetryContextFailedFirst(heap, originalMessages, failedContent, priorText, correctionPrompt) ==
    LET messagesWithFailed ==
            appendAssistantMessage(heap, originalMessages,
                                   StringContent(failedContent \o priorText))
    IN appendUserMessage(messagesWithFailed.heap, messagesWithFailed.list,
                         StringContent(correctionPrompt))

buildRetryContext(heap, originalMessages, failedContent, priorText, correctionPrompt) ==
    LET messagesWithFailed ==
            appendAssistantMessage(heap, originalMessages,
                                   StringContent(priorText \o failedContent))
    IN appendUserMessage(messagesWithFailed.heap, messagesWithFailed.list,
                         StringContent(correctionPrompt))

buildAnalysisContext(heap, originalMessages, analysisPrompt) ==
    appendUserMessage(heap, originalMessages, StringContent(analysisPrompt))

buildDeepBrowseContext(heap, originalMessages, initialAnalysis, deepBrowseContent, finalPrompt) ==
    LET messagesWithInitial ==
            appendAssistantMessage(heap, originalMessages, StringContent(initialAnalysis))
    IN appendUserMessage(messagesWithInitial.heap, messagesWithInitial.list,
                         StringContent(deepBrowseContent \o <<"\n", "\n">> \o finalPrompt))

\* messages.map((msg) => ({ role: msg.role, content: ... })): a new object for
\* every message, its content the same string or a copy of the blocks
cloneMessages(heap, messages) ==
    [heap |-> heap \o Deref(heap, messages),
     list |-> [i \in 1..Len(messages) |-> Len(heap) + i]]

\* the two loops of mergeMessages over the messages of all the lists in order;
\* lastMsg is an object of one of the lists, and lastMsg.content = ... writes
\* to it
RECURSIVE mergeLoop(_, _, _)
mergeLoop(heap, merged, rest) ==
    IF rest = <<>> THEN [heap |-> heap, list |-> merged]
    ELSE LET msg == Head(rest)
             lastMsg == merged[Len(merged)]
         IN IF merged # <<>> /\ heap[lastMsg].role = heap[msg].role
            THEN IF heap[lastMsg].content.isString /\ heap[msg].content.isString
                 THEN mergeLoop([heap EXCEPT ![lastMsg].content =
                                    StringContent(heap[lastMsg].content.text
                                                  \o <<"\n", "\n">>
                                                  \o heap[msg].content.text)],
                                merged, Tail(rest))
                 ELSE mergeLoop(heap, Append(merged, msg), Tail(rest))
            ELSE mergeLoop(heap, Append(merged, msg), Tail(rest))

mergeMessages(heap, messageLists) == mergeLoop(heap, <<>>, Concat(messageLists))

truncateMessages(heap, messages, maxMessages) ==
    IF Len(messages) <= maxMessages
    THEN [heap |-> heap, list |-> messages]
    ELSE [heap |-> heap,
          list |-> SubSeq(messages, Len(messages) - maxMessages + 1, Len(messages))]

\* the client's messages as they were received are in `given`; `returned`
\* holds the heap, the lists the caller holds (the first is the client's) and
\* the last call
ContextInit ==
    /\ WriterIdle
    /\ ParserIdle
    /\ ReadIdle
    /\ given \in ClientMessageLists
    /\ returned = [fn |-> "ContextBuilder", heap |-> given,
                   lists |-> <<[i \in 1..Len(given) |-> i]>>,
                   last |-> [op |-> "none", args |-> <<>>, texts |-> <<>>]]

Called(op, args, texts, r) ==
    /\ returned' = [returned EXCEPT !.heap = r.heap,
                                    !.lists = Append(@, r.list),
                                    !.last = [op |-> op, args |-> args, texts |-> texts]]
    /\ UNCHANGED given
    /\ UNCHANGED <<writerVars, handlerVars, parserVars, readVars>>

MayCall == returned.fn = "ContextBuilder" /\ Len(returned.lists) <= MaxCalls

PromptTexts == { <<"c">> }

AppendUserMessage ==
    /\ MayCall
    /\ \E a \in 1..Len(returned.lists), content \in ClientContents :
         Called("appendUserMessage", <<a>>, <<>>,
                appendUserMessage(returned.heap, returned.lists[a], content))

AppendAssistantMessage ==
    /\ MayCall
    /\ \E a \in 1..Len(returned.lists), content \in ClientContents :
         Called("appendAssistantMessage", <<a>>, <<>>,
                appendAssistantMessage(returned.heap, returned.lists[a], content))

BuildRetryContext ==
    /\ MayCall
    /\ \E a \in 1..Len(returned.lists), failedContent \in { <<"f">> },
          priorText \in { <<>>, <<"p">> }, correctionPrompt \in PromptTexts :
         Called("buildRetryContext", <<a>>, <<failedContent, priorText, correctionPrompt>>,
                buildRetryContext(returned.heap, returned.lists[a], failedContent,
                                  priorText, correctionPrompt))

BuildAnalysisContext ==
    /\ MayCall
    /\ \E a \in 1..Len(returned.lists), analysisPrompt \in PromptTexts :
         Called("buildAnalysisContext", <<a>>, <<analysisPrompt>>,
                buildAnalysisContext(returned.heap, returned.lists[a], analysisPrompt))

BuildDeepBrowseContext ==
    /\ MayCall
    /\ \E a \in 1..Len(returned.lists), finalPrompt \in PromptTexts :
         Called("buildDeepBrowseContext", <<a>>, <<<<"i">>, <<"d">>, finalPrompt>>,
                buildDeepBrowseContext(returned.heap, returned.lists[a], <<"i">>, <<"d">>,
                                       finalPrompt))

CloneMessages ==
    /\ MayCall
    /\ \E a \in 1..Len(returned.lists) :
         Called("cloneMessages", <<a>>, <<>>,
                cloneMessages(returned.heap, returned.lists[a]))

MergeMessages ==
    /\ MayCall
    /\ \E n \in 1..2 : \E args \in [1..n -> 1..Len(returned.lists)] :
         Called("mergeMessages", args, <<>>,
                mergeMessages(returned.heap, [i \in 1..n |-> returned.lists[args[i]]]))

TruncateMessages ==
    /\ MayCall
    /\ \E a \in 1..Len(returned.lists), maxMessages \in 0..MaxClientMessages :
         Called("truncateMessages", <<a>>, <<>>,
                truncateMessages(returned.heap, returned.lists[a], maxMessages))

ContextNext ==
    \/ AppendUserMessage
    \/ AppendAssistantMessage
    \/ BuildRetryContext
    \/ BuildAnalysisContext
    \/ BuildDeepBrowseContext
    \/ CloneMessages
    \/ MergeMessages
    \/ TruncateMessages

ContextSpec == ContextInit /\ [][ContextNext]_vars

(***************************************************************************)
(* C38: the retry prompt                                                   *)
(***************************************************************************)
LastList(r) == r.lists[Len(r.lists)]

\* this step is a call of buildRetryContext
RetryContextCalled ==
    /\ returned.fn = "ContextBuilder"
    /\ Len(returned'.lists) = Len(returned.lists) + 1
    /\ returned'.last.op = "buildRetryContext"

RetryContextIsOriginalPlusTwo ==
    LET originalMessages == returned.lists[returned'.last.args[1]]
        failedContent == returned'.last.texts[1]
        priorText == returned'.last.texts[2]
        correctionPrompt == returned'.last.texts[3]
        built == LastList(returned')
        n == Len(originalMessages)
    IN /\ Len(built) = n + 2
       /\ SubSeq(built, 1, n) = originalMessages
       /\ Deref(returned'.heap, originalMessages) = Deref(returned.heap, originalMessages)
       /\ returned'.heap[built[n + 1]] =
             ClaudeMessage("assistant", StringContent(priorText \o failedContent))
       /\ returned'.heap[built[n + 2]] =
             ClaudeMessage("user", StringContent(correctionPrompt))

\* C38: the list built by buildRetryContext is the original message list, in
\* order and unchanged, followed by exactly one assistant message whose content
\* is priorText then failedContent, and then exactly one user message holding
\* the correction instruction.
C38_RetryContext == [][RetryContextCalled => RetryContextIsOriginalPlusTwo]_vars

\* a retry context built over two messages with a prior text
C38_Witness ==
    /\ returned.fn = "ContextBuilder"
    /\ returned.last.op = "buildRetryContext"
    /\ returned.last.texts[2] = <<"p">>
    /\ Len(returned.lists[returned.last.args[1]]) = 2
    /\ Len(LastList(returned)) = 4
    /\ returned.heap[LastList(returned)[3]].content.text = <<"p", "f">>

(***************************************************************************)
(* C39: the client's messages after any sequence of calls                  *)
(***************************************************************************)
ClientList == returned.lists[1]

\* C39: after any sequence of ContextBuilder calls the client's original
\* messages have the same length, roles and contents as before.
C39_OriginalMessagesUnchanged ==
    returned.fn = "ContextBuilder" =>
        /\ Len(ClientList) = Len(given)
        /\ Deref(returned.heap, ClientList) = given

\* every operation but mergeMessages leaves every message object that exists
\* as it is
C39_OnlyMergeWrites ==
    [][returned.fn = "ContextBuilder" /\ returned'.last.op # "mergeMessages" =>
          SubSeq(returned'.heap, 1, Len(returned.heap)) = returned.heap]_vars

\* mergeMessages has written to the first message of the client
C39_WitnessMergedIntoOriginal ==
    /\ returned.fn = "ContextBuilder"
    /\ returned.last.op = "mergeMessages"
    /\ given[1].content = StringContent(<<"a">>)
    /\ returned.heap[ClientList[1]].content = StringContent(<<"a", "\n", "\n", "a">>)

(***************************************************************************)
(* ToolUseInterceptor over the content blocks of an upstream stream: every *)
(* block is a content_block_start, some content_block_delta and a          *)
(* content_block_stop, one block after the other.  `given` is the          *)
(* webToolsConfig; `returned` holds the interceptor's fields, the block    *)
(* under way and the last call with what it returned.                      *)
(***************************************************************************)
MaxBlocks == 3
MaxBlockDeltas == 2

NoToolUse == [isNull |-> TRUE, name |-> ""]
NoBlock == [type |-> "none", name |-> ""]

UpstreamBlocks ==
    { [type |-> "text", name |-> ""] }
    \cup { [type |-> "tool_use", name |-> n] : n \in {"web_search", "web_fetch", "get_weather"} }

UpstreamDeltas ==
    { [type |-> "text_delta", partial_json |-> <<>>] }
    \cup { [type |-> "input_json_delta", partial_json |-> p] :
              p \in { <<>>, <<"{", "q">>, <<"}">> } }

DeltasOf(block) ==
    { d \in UpstreamDeltas : (d.type = "input_json_delta") = (block.type = "tool_use") }

NewInterceptor ==
    [currentToolUse |-> NoToolUse, shouldInterceptCurrent |-> FALSE,
     inputJsonBuffer |-> <<>>]

shouldInterceptToolUse(webToolsConfig, toolName) ==
    \/ toolName = "web_search" /\ webToolsConfig.enableSearchIntercept
    \/ toolName = "web_fetch" /\ webToolsConfig.enableFetchIntercept

handleContentBlockStart(webToolsConfig, this, contentBlock) ==
    IF contentBlock.type = "tool_use"
    THEN LET shouldIntercept == shouldInterceptToolUse(webToolsConfig, contentBlock.name)
         IN [this |-> [currentToolUse |-> [isNull |-> FALSE, name |-> contentBlock.name],
                       shouldInterceptCurrent |-> shouldIntercept,
                       inputJsonBuffer |-> <<>>],
             result |-> shouldIntercept]
    ELSE [this |-> this, result |-> FALSE]

handleContentBlockDelta(this, delta) ==
    IF ~this.shouldInterceptCurrent THEN [this |-> this, result |-> FALSE]
    ELSE [this |-> IF /\ delta.type = "input_json_delta"
                      /\ ~this.currentToolUse.isNull
                      /\ delta.partial_json # <<>>
                   THEN [this EXCEPT !.inputJsonBuffer = @ \o delta.partial_json]
                   ELSE this,
          result |-> TRUE]

\* JSON.parse(this.inputJsonBuffer) gives an object with the query or the url
HasArgument(inputJsonBuffer) == inputJsonBuffer = <<"{", "q", "}">>

\* executeWebSearch / executeWebFetch: nothing is run without a query or a
\* url; otherwise the tool returns or throws
executeOutcome(this, toolThrows) ==
    IF this.currentToolUse.name \notin {"web_search", "web_fetch"} THEN "none"
    ELSE IF ~HasArgument(this.inputJsonBuffer) THEN "no_argument"
    ELSE IF toolThrows THEN "threw"
    ELSE "written"

\* the state is reset only when the tool did not throw
handleContentBlockStopResetInTry(this, toolThrows) ==
    IF ~this.shouldInterceptCurrent \/ this.currentToolUse.isNull
    THEN [this |-> this, result |-> FALSE, outcome |-> "none"]
    ELSE [this |-> IF executeOutcome(this, toolThrows) = "threw" THEN this
                   ELSE NewInterceptor,
          result |-> TRUE, outcome |-> executeOutcome(this, toolThrows)]

\* try { execute } catch { log } finally { reset }; return true
handleContentBlockStop(this, toolThrows) ==
    IF ~this.shouldInterceptCurrent \/ this.currentToolUse.isNull
    THEN [this |-> this, result |-> FALSE, outcome |-> "none"]
    ELSE [this |-> NewInterceptor, result |-> TRUE,
          outcome |-> executeOutcome(this, toolThrows)]

InterceptorInit ==
    /\ WriterIdle
    /\ ParserIdle
    /\ ReadIdle
    /\ \E s \in BOOLEAN, f \in BOOLEAN :
         given = [fn |-> "ToolUseInterceptor", enableSearchIntercept |-> s,
                  enableFetchIntercept |-> f]
    /\ returned = [fn |-> "ToolUseInterceptor", this |-> NewInterceptor,
                   block |-> NoBlock, blocks |-> 0, deltas |-> 0,
                   last |-> [call |-> "none", result |-> FALSE, outcome |-> "none"]]

Handled(r, call, block, blocks, deltas) ==
    /\ returned' = [returned EXCEPT
                      !.this = r.this, !.block = block, !.blocks = blocks,
                      !.deltas = deltas,
                      !.last = [call |-> call, result |-> r.result,
                                outcome |-> IF call = "stop" THEN r.outcome ELSE "none"]]
    /\ UNCHANGED given
    /\ UNCHANGED <<writerVars, handlerVars, parserVars, readVars>>

ContentBlockStart ==
    /\ returned.fn = "ToolUseInterceptor"
    /\ returned.block = NoBlock
    /\ returned.blocks < MaxBlocks
    /\ \E contentBlock \in UpstreamBlocks :
         Handled(handleContentBlockStart(given, returned.this, contentBlock),
                 "start", contentBlock, returned.blocks + 1, 0)

ContentBlockDelta ==
    /\ returned.fn = "ToolUseInterceptor"
    /\ returned.block # NoBlock
    /\ returned.deltas < MaxBlockDeltas
    /\ \E delta \in DeltasOf(returned.block) :
         Handled(handleContentBlockDelta(returned.this, delta),
                 "delta", returned.block, returned.blocks, returned.deltas + 1)

ContentBlockStop ==
    /\ returned.fn = "ToolUseInterceptor"
    /\ returned.block # NoBlock
    /\ \E toolThrows \in BOOLEAN :
         Handled(handleContentBlockStop(returned.this, toolThrows),
                 "stop", NoBlock, returned.blocks, returned.deltas)

InterceptorNext == ContentBlockStart \/ ContentBlockDelta \/ ContentBlockStop

InterceptorSpec == InterceptorInit /\ [][InterceptorNext]_vars

(***************************************************************************)
(* C40: a block is withheld whole or passed whole                          *)
(***************************************************************************)
\* a tool_use block named web_search or web_fetch whose interception is enabled
ToBeIntercepted(block) ==
    /\ block.type = "tool_use"
    /\ \/ block.name = "web_search" /\ given.enableSearchIntercept
       \/ block.name = "web_fetch" /\ given.enableFetchIntercept

\* what the call made in this step returned is what the block calls for
CallFollowsItsBlock ==
    LET block == IF returned'.last.call = "stop" THEN returned.block ELSE returned'.block
    IN /\ returned'.last.result = ToBeIntercepted(block)
       /\ returned'.last.call = "stop" /\ ToBeIntercepted(block) =>
             /\ ~returned'.this.shouldInterceptCurrent
             /\ returned'.this.inputJsonBuffer = <<>>

\* C40: for a tool_use block named web_search or web_fetch whose interception
\* is enabled, handleContentBlockStart, every handleContentBlockDelta and
\* handleContentBlockStop return true; for every other block all three return
\* false; after handleContentBlockStop of an intercepted block, also when the
\* tool threw, the interceptor is not intercepting and its input buffer is
\* empty.
C40_BlockAllOrNothing ==
    [][returned.fn = "ToolUseInterceptor" => CallFollowsItsBlock]_vars

\* the stop of an intercepted block whose tool threw, after a block that was
\* passed on
C40_WitnessThrew ==
    /\ returned.fn = "ToolUseInterceptor"
    /\ returned.last = [call |-> "stop", result |-> TRUE, outcome |-> "threw"]
    /\ returned.blocks = 2
    /\ returned.this = NewInterceptor

\* a delta of a text block passed on after an intercepted block
C40_WitnessPassedAfterIntercepted ==
    /\ returned.fn = "ToolUseInterceptor"
    /\ returned.blocks = 2
    /\ returned.block.type = "text"
    /\ returned.last = [call |-> "delta", result |-> FALSE, outcome |-> "none"]
    /\ given.enableSearchIntercept
    /\ returned.this.currentToolUse.isNull

\* web_search passed on because its interception is not enabled
C40_WitnessNotEnabled ==
    /\ returned.fn = "ToolUseInterceptor"
    /\ returned.block = [type |-> "tool_use", name |-> "web_search"]
    /\ ~given.enableSearchIntercept
    /\ returned.last.call = "delta"
    /\ ~returned.last.result

====
